---------------------------- MODULE Spec2Model ----------------------------
(***************************************************************************)
(* A model of the portfolio chatbot API: the RAG handler of                *)
(* src/api/chat-original.js (portfolioCache, warmUpCache, the POST and     *)
(* GET /warmup paths of handler, the chunker, the embedding step and the   *)
(* two rankers) and the keyword-only handler of src/api/chat.js.           *)
(*                                                                         *)
(* Node runs the handlers on one event loop: the code between two awaits   *)
(* is one atomic step.  Every action below is one such step; consecutive   *)
(* awaits that touch no shared state (the portfolioCache binding) are      *)
(* folded into one step.  A string is a tuple of one-character strings.    *)
(***************************************************************************)
EXTENDS Integers, Sequences, FiniteSets, TLC

\* ------------------------------------------------------------------ bounds

\* Number of HTTP requests the process receives in one behaviour.
NumReq == 2

\* Number of times the wall clock is advanced in one behaviour.
MaxTicks == 1

\* --------------------------------------------------------- program constants

\* const CACHE_DURATION = 60 * 60 * 1000
CACHE_DURATION == 3600000

\* while (portfolioCache.isWarmingUp && retries < 30)
MAX_RETRIES == 30

\* splitIntoChunks(content, chunkSize = 800, overlap = 100)
DEFAULT_CHUNK_SIZE == 800

DEFAULT_OVERLAP == 100

\* if (text && text.length > 50)
MIN_SECTION_LENGTH == 50

\* const maxChunks = 30
MAX_CHUNKS == 30

\* new Array(768).fill(0)
EMBEDDING_DIM == 768

\* the topK the handler passes to findRelevantChunks
TOP_K == 3

\* A value that may be null or undefined is kept as a tuple of at most one
\* element: Null for null and undefined (which no modelled code tells apart),
\* Some(x) for the value x.
Null == <<>>

Some(x) == <<x>>

Get(opt) == opt[1]

\* ----------------------------------------------------------------- strings

Min(a, b) == IF a < b THEN a ELSE b

Max(a, b) == IF a > b THEN a ELSE b

\* the characters String.prototype.trim and the regular expression \s remove
Whitespace == {" ", "\n", "\t"}

RECURSIVE TrimStart(_)
TrimStart(s) ==
  IF Len(s) > 0 /\ Head(s) \in Whitespace THEN TrimStart(Tail(s)) ELSE s

RECURSIVE TrimEnd(_)
TrimEnd(s) ==
  IF Len(s) > 0 /\ s[Len(s)] \in Whitespace
  THEN TrimEnd(SubSeq(s, 1, Len(s) - 1))
  ELSE s

\* String.prototype.trim
Trim(s) == TrimEnd(TrimStart(s))

\* String.prototype.slice(start, end), indices counted from 0: a negative
\* index counts from the end of the string, and both are clamped to the
\* string.
JsSlice(s, start, end) ==
  LET n    == Len(s)
      from == IF start < 0 THEN Max(n + start, 0) ELSE Min(start, n)
      to   == IF end < 0 THEN Max(n + end, 0) ELSE Min(end, n)
  IN IF from < to THEN SubSeq(s, from + 1, to) ELSE <<>>

UpperCase ==
  <<"A","B","C","D","E","F","G","H","I","J","K","L","M",
    "N","O","P","Q","R","S","T","U","V","W","X","Y","Z">>

LowerCase ==
  <<"a","b","c","d","e","f","g","h","i","j","k","l","m",
    "n","o","p","q","r","s","t","u","v","w","x","y","z">>

LowerChar(c) ==
  IF \E i \in 1..26 : UpperCase[i] = c
  THEN LowerCase[CHOOSE i \in 1..26 : UpperCase[i] = c]
  ELSE c

\* String.prototype.toLowerCase
ToLowerCase(s) == [i \in 1..Len(s) |-> LowerChar(s[i])]

\* n copies of the character c
Repeat(c, n) == [i \in 1..n |-> c]

\* s.split(/\s+/): the maximal runs of non-whitespace characters, with an
\* empty first (last) field when s starts (ends) with whitespace
RECURSIVE SplitFrom(_, _, _, _)
SplitFrom(s, i, cur, acc) ==
  IF i > Len(s) THEN Append(acc, cur)
  ELSE IF s[i] \in Whitespace
       THEN IF i > 1 /\ s[i - 1] \in Whitespace
            THEN SplitFrom(s, i + 1, cur, acc)
            ELSE SplitFrom(s, i + 1, <<>>, Append(acc, cur))
       ELSE SplitFrom(s, i + 1, Append(cur, s[i]), acc)

SplitWhitespace(s) == SplitFrom(s, 1, <<>>, <<>>)

\* ----------------------------------------------------------------- chunker

\* splitText's loop from the iteration that starts at `start` with `acc`
\* collected so far.  The next start depends on the current start alone, so
\* a start that comes back (seen) means the loop never ends and keeps
\* pushing chunks: the call does not return.
RECURSIVE splitTextLoop(_, _, _, _, _, _)
splitTextLoop(text, chunkSize, overlap, start, acc, seen) ==
  IF ~(start < Len(text)) THEN [diverges |-> FALSE, chunks |-> acc]
  ELSE IF start \in seen THEN [diverges |-> TRUE, chunks |-> acc]
  ELSE LET end   == Min(start + chunkSize, Len(text))
           chunk == Trim(JsSlice(text, start, end))
           acc2  == IF Len(chunk) > 0 THEN Append(acc, chunk) ELSE acc
           next  == end - overlap
       IN IF next >= Len(text)
          THEN [diverges |-> FALSE, chunks |-> acc2]
          ELSE splitTextLoop(text, chunkSize, overlap, next, acc2,
                             seen \cup {start})

\* function splitText(text, chunkSize, overlap)
splitText(text, chunkSize, overlap) ==
  splitTextLoop(text, chunkSize, overlap, 0, <<>>, {})

prioritySections == <<"about", "skills", "projects", "experience">>

otherSections == <<"education", "certificates", "contact">>

\* content.structured[section]: undefined for a key the object lacks
SectionText(content, section) ==
  IF section \in DOMAIN content.structured
  THEN Some(content.structured[section])
  ELSE Null

\* one of splitIntoChunks' two for-loops, from section number i on
RECURSIVE chunkSections(_, _, _, _, _, _, _)
chunkSections(content, sections, type, chunkSize, overlap, i, acc) ==
  IF i > Len(sections) THEN [diverges |-> FALSE, chunks |-> acc]
  ELSE LET section == sections[i]
           text    == SectionText(content, section)
       IN IF text # Null /\ Len(Get(text)) > MIN_SECTION_LENGTH
          THEN LET r == splitText(Get(text), chunkSize, overlap)
               IN IF r.diverges THEN [diverges |-> TRUE, chunks |-> acc]
                  ELSE chunkSections(content, sections, type, chunkSize,
                         overlap, i + 1,
                         acc \o [k \in 1..Len(r.chunks) |->
                                   [content |-> r.chunks[k],
                                    section |-> section,
                                    type    |-> type]])
          ELSE chunkSections(content, sections, type, chunkSize, overlap,
                             i + 1, acc)

\* a faulty variant of splitIntoChunks: the list is not cut at maxChunks
splitIntoChunksNoCeiling(content, chunkSize, overlap) ==
  LET p == chunkSections(content, prioritySections, "priority",
                         chunkSize, overlap, 1, <<>>)
  IN IF p.diverges THEN p
     ELSE chunkSections(content, otherSections, "secondary",
                        chunkSize, overlap, 1, p.chunks)

\* function splitIntoChunks(content, chunkSize = 800, overlap = 100)
splitIntoChunks(content, chunkSize, overlap) ==
  LET p == chunkSections(content, prioritySections, "priority",
                         chunkSize, overlap, 1, <<>>)
  IN IF p.diverges THEN p
     ELSE LET o == chunkSections(content, otherSections, "secondary",
                                 chunkSize, overlap, 1, p.chunks)
          IN IF o.diverges THEN o
             ELSE IF Len(o.chunks) > MAX_CHUNKS
                  THEN [diverges |-> FALSE,
                        chunks   |-> SubSeq(o.chunks, 1, MAX_CHUNKS)]
                  ELSE o

\* -------------------------------------------------------------- embeddings

\* new Array(768).fill(0)
ZeroEmbedding == [i \in 1..EMBEDDING_DIM |-> 0]

\* a faulty variant of embeddingOf: a failed call leaves no placeholder
embeddingOfNoPlaceholder(result) == result.values

\* The embedding vector generateEmbeddings keeps for one chunk, given what
\* the provider call for that chunk did: a result is
\*   [kind |-> "ok", values |-> v]   response.ok, data.embedding.values = v
\*   [kind |-> "http_error"]         !response.ok
\*   [kind |-> "no_values"]          no embedding.values in the body
\*   [kind |-> "throws"]             fetch or response.json() rejected
embeddingOf(result) ==
  IF result.kind = "ok" /\ Len(result.values) > 0
  THEN result.values
  ELSE ZeroEmbedding

\* async function generateEmbeddings(chunks, apiKey), given the provider's
\* result for each chunk in turn
generateEmbeddings(chunks, results) ==
  [i \in 1..Len(chunks) |-> embeddingOf(results[i])]

\* chunks.map(() => new Array(768).fill(0))
dummyEmbeddings(chunks) == [i \in 1..Len(chunks) |-> ZeroEmbedding]

\* ----------------------------------------------------------------- ranking

\* A similarity is kept exactly, as the number num / sqrt(densq), densq > 0.
Sim(num, densq) == [num |-> num, densq |-> densq]

SimZero == Sim(0, 1)

\* a.similarity < b.similarity
SimLess(a, b) ==
  LET l == a.num * a.num * b.densq
      r == b.num * b.num * a.densq
  IN IF a.num < 0 /\ b.num >= 0 THEN TRUE
     ELSE IF a.num >= 0 /\ b.num < 0 THEN FALSE
     ELSE IF a.num >= 0 THEN l < r
     ELSE l > r

\* a faulty variant of insertBySimilarity: an item goes before the items it
\* compares equal to
RECURSIVE insertBeforeTies(_, _)
insertBeforeTies(sorted, item) ==
  IF sorted = <<>> THEN <<item>>
  ELSE IF ~SimLess(item.similarity, Head(sorted).similarity)
       THEN <<item>> \o sorted
       ELSE <<Head(sorted)>> \o insertBeforeTies(Tail(sorted), item)

\* Array.prototype.sort((a, b) => b.similarity - a.similarity): descending,
\* and stable (items that compare equal keep their order)
RECURSIVE insertBySimilarity(_, _)
insertBySimilarity(sorted, item) ==
  IF sorted = <<>> THEN <<item>>
  ELSE IF SimLess(Head(sorted).similarity, item.similarity)
       THEN <<item>> \o sorted
       ELSE <<Head(sorted)>> \o insertBySimilarity(Tail(sorted), item)

RECURSIVE sortBySimilarity(_)
sortBySimilarity(items) ==
  IF items = <<>> THEN <<>>
  ELSE insertBySimilarity(
         sortBySimilarity(SubSeq(items, 1, Len(items) - 1)),
         items[Len(items)])

\* Array.prototype.slice(0, topK)
Take(items, topK) == SubSeq(items, 1, Min(topK, Len(items)))

\* new RegExp(word, 'g') for a word whose characters are literal characters
\* and the metacharacters "?", "+" and "(": the word is a pattern, not a
\* literal.  A quantifier makes the atom before it optional ("?") or
\* repeated ("+"), a "?" after a quantifier makes it lazy, a quantifier with
\* nothing to repeat and a "(" that is never closed raise a SyntaxError
\* (the modelled words hold no ")").
RECURSIVE regExpAtoms(_, _, _)
regExpAtoms(word, i, acc) ==
  IF i > Len(word) THEN [throws |-> FALSE, atoms |-> acc]
  ELSE LET c == word[i]
           n == Len(acc)
       IN IF c = "(" THEN [throws |-> TRUE, atoms |-> <<>>]
          ELSE IF c \in {"?", "+"}
          THEN IF n = 0 THEN [throws |-> TRUE, atoms |-> <<>>]
               ELSE IF acc[n].q = "1"
               THEN regExpAtoms(word, i + 1, [acc EXCEPT ![n].q = c])
               ELSE IF c = "?" /\ acc[n].q \in {"?", "+"}
               THEN regExpAtoms(word, i + 1,
                                [acc EXCEPT ![n].q = acc[n].q \o "?"])
               ELSE [throws |-> TRUE, atoms |-> <<>>]
          ELSE regExpAtoms(word, i + 1, Append(acc, [ch |-> c, q |-> "1"]))

RegExp(word) == regExpAtoms(word, 1, <<>>)

\* the number of consecutive characters ch in text from position pos on
RECURSIVE runLength(_, _, _)
runLength(ch, text, pos) ==
  IF pos <= Len(text) /\ text[pos] = ch
  THEN 1 + runLength(ch, text, pos + 1)
  ELSE 0

\* the backtracking match of atoms k.. at position pos: the position after
\* the match the engine finds first, or 0 when there is none.  A greedy
\* quantifier tries the most repetitions first, a lazy one the fewest.
RECURSIVE matchEnd(_, _, _, _)
RECURSIVE tryRepeat(_, _, _, _, _, _, _)
tryRepeat(atoms, k, text, pos, n, lo, hi) ==
  IF n < lo \/ n > hi THEN 0
  ELSE LET e == matchEnd(atoms, k + 1, text, pos + n)
           greedy == atoms[k].q \in {"?", "+"}
       IN IF e # 0 THEN e
          ELSE tryRepeat(atoms, k, text, pos,
                         IF greedy THEN n - 1 ELSE n + 1, lo, hi)

matchEnd(atoms, k, text, pos) ==
  IF k > Len(atoms) THEN pos
  ELSE LET a   == atoms[k]
           run == runLength(a.ch, text, pos)
           lo  == IF a.q \in {"?", "??"} THEN 0 ELSE 1
           hi  == IF a.q \in {"+", "+?"} THEN run ELSE Min(1, run)
       IN IF a.q = "1"
          THEN IF run > 0 THEN matchEnd(atoms, k + 1, text, pos + 1) ELSE 0
          ELSE tryRepeat(atoms, k, text, pos,
                         IF a.q \in {"?", "+"} THEN hi ELSE lo, lo, hi)

\* (contentLower.match(new RegExp(word, 'g')) || []).length: the matches
\* found scanning left to right, each search resuming where the previous
\* match ended, one position further after an empty match
RECURSIVE matchCountFrom(_, _, _)
matchCountFrom(atoms, text, i) ==
  IF i > Len(text) + 1 THEN 0
  ELSE LET e == matchEnd(atoms, 1, text, i)
       IN IF e = 0 THEN matchCountFrom(atoms, text, i + 1)
          ELSE 1 + matchCountFrom(atoms, text, IF e = i THEN i + 1 ELSE e)

matchCount(word, text) == matchCountFrom(RegExp(word).atoms, text, 1)

\* whether new RegExp raises on one of the words
invalidWords(words) == \E i \in 1..Len(words) : RegExp(words[i]).throws

\* queryLower.split(/\s+/).filter(word => word.length > 2)
RECURSIVE longWords(_)
longWords(words) ==
  IF words = <<>> THEN <<>>
  ELSE IF Len(Head(words)) > 2
       THEN <<Head(words)>> \o longWords(Tail(words))
       ELSE longWords(Tail(words))

queryWordsOf(query) == longWords(SplitWhitespace(ToLowerCase(query)))

RECURSIVE sumMatches(_, _)
sumMatches(words, text) ==
  IF words = <<>> THEN 0
  ELSE matchCount(Head(words), text) + sumMatches(Tail(words), text)

\* a faulty variant of scoreChunks: a chunk is kept whatever its score
RECURSIVE scoreChunksKeepsZero(_, _, _, _)
scoreChunksKeepsZero(words, chunks, i, acc) ==
  IF i > Len(chunks) THEN acc
  ELSE LET matches == sumMatches(words, ToLowerCase(chunks[i].content))
       IN scoreChunksKeepsZero(words, chunks, i + 1,
            Append(acc, [index      |-> i - 1,
                         similarity |-> Sim(2 * matches,
                                            4 * Len(words) * Len(words)),
                         chunk      |-> chunks[i]]))

\* the forEach of findRelevantContentSimple from chunk number i on: the
\* score of a priority chunk is multiplied by 1.5 (3/2), and a chunk is
\* kept when its score is positive, with similarity score / queryWords.length
RECURSIVE scoreChunks(_, _, _, _)
scoreChunks(words, chunks, i, acc) ==
  IF i > Len(chunks) THEN acc
  ELSE LET chunk   == chunks[i]
           matches == sumMatches(words, ToLowerCase(chunk.content))
           score2  == IF chunk.type = "priority" THEN 3 * matches
                      ELSE 2 * matches
       IN scoreChunks(words, chunks, i + 1,
            IF score2 > 0
            THEN Append(acc,
                   [index      |-> i - 1,
                    similarity |-> Sim(score2,
                                       4 * Len(words) * Len(words)),
                    chunk      |-> chunk])
            ELSE acc)

\* function findRelevantContentSimple(query, chunks, topK = 3).  On chunks
\* null, chunks.forEach raises a TypeError; with a chunk to score, the first
\* query word that is no valid pattern raises a SyntaxError.
findRelevantContentSimple(query, chunks, topK) ==
  IF chunks = Null THEN [throws |-> TRUE, mode |-> "keyword", items |-> <<>>]
  ELSE IF Get(chunks) # <<>> /\ invalidWords(queryWordsOf(query))
  THEN [throws |-> TRUE, mode |-> "keyword", items |-> <<>>]
  ELSE [throws |-> FALSE,
        mode   |-> "keyword",
        items  |-> Take(sortBySimilarity(
                     scoreChunks(queryWordsOf(query), Get(chunks), 1, <<>>)),
                     topK)]

\* the sum of a[i] * b[i] for i from lo to hi, as the loop
\* for (let i = 0; i < vecA.length; i++) accumulates it (the range is
\* halved to keep the evaluation shallow)
RECURSIVE dotFrom(_, _, _, _)
dotFrom(a, b, lo, hi) ==
  IF lo > hi THEN 0
  ELSE IF lo = hi THEN a[lo] * b[lo]
  ELSE LET mid == (lo + hi) \div 2
       IN dotFrom(a, b, lo, mid) + dotFrom(a, b, mid + 1, hi)

\* a faulty variant of cosineSimilarity: the denominator is not compared
\* with 0
cosineSimilarityUnguarded(vecA, vecB) ==
  IF vecA = Null \/ vecB = Null THEN SimZero
  ELSE IF Len(Get(vecA)) # Len(Get(vecB)) THEN SimZero
  ELSE LET n == Len(Get(vecA))
       IN Sim(dotFrom(Get(vecA), Get(vecB), 1, n),
              dotFrom(Get(vecA), Get(vecA), 1, n)
                * dotFrom(Get(vecB), Get(vecB), 1, n))

\* function cosineSimilarity(vecA, vecB)
cosineSimilarity(vecA, vecB) ==
  IF vecA = Null \/ vecB = Null THEN SimZero
  ELSE IF Len(Get(vecA)) # Len(Get(vecB)) THEN SimZero
  ELSE LET n          == Len(Get(vecA))
           dotProduct == dotFrom(Get(vecA), Get(vecB), 1, n)
           normA      == dotFrom(Get(vecA), Get(vecA), 1, n)
           normB      == dotFrom(Get(vecB), Get(vecB), 1, n)
       IN IF normA * normB = 0 THEN SimZero
          ELSE Sim(dotProduct, normA * normB)

\* embeddings && embeddings.length > 0 && embeddings[0] &&
\* embeddings[0].length > 0 && !embeddings[0].every(val => val === 0)
hasValidEmbeddings(embeddings) ==
  /\ embeddings # Null
  /\ Len(Get(embeddings)) > 0
  /\ Len(Get(embeddings)[1]) > 0
  /\ \E i \in 1..Len(Get(embeddings)[1]) : Get(embeddings)[1][i] # 0

\* async function findRelevantChunks(query, chunks, embeddings, key, topK),
\* given what the provider call for the query's embedding does (a result as
\* for embeddingOf)
findRelevantChunks(query, chunks, embeddings, queryResult, topK) ==
  IF ~hasValidEmbeddings(embeddings)
  THEN findRelevantContentSimple(query, chunks, topK)
  ELSE IF queryResult.kind # "ok" \/ Len(queryResult.values) = 0
       THEN findRelevantContentSimple(query, chunks, topK)
       ELSE [throws |-> FALSE,
             mode   |-> "semantic",
             items  |-> Take(sortBySimilarity(
                          [i \in 1..Len(Get(embeddings)) |->
                             [index      |-> i - 1,
                              similarity |-> cosineSimilarity(
                                               Some(queryResult.values),
                                               Some(Get(embeddings)[i])),
                              chunk      |-> Get(chunks)[i]]]),
                          topK)]


\* ------------------------- ranking of the OpenAI-embedding handler (part_005)

\* new Array(1536).fill(0)
OPENAI_DIM == 1536

openaiZeroEmbedding == [i \in 1..OPENAI_DIM |-> 0]

\* the value of 0 / 0: not a number. It is kept as the similarity with
\* numerator 0 and denominator 0; a comparison with it is never true.
NaN == Sim(0, 0)

\* similarity: 0.5 of the fallback (1 / sqrt(4))
SimHalf == Sim(1, 4)

\* async function generateEmbeddings(chunks, apiKey) of part_005, given what
\* the one provider call for all the chunks did: a result is
\*   [kind |-> "ok", values |-> vs]   response.ok, data.data[i].embedding =
\*                                    vs[i]
\*   [kind |-> "http_error"], [kind |-> "throws"]   the catch block runs
openaiGenerateEmbeddings(chunks, result) ==
  IF result.kind = "ok" THEN result.values
  ELSE [i \in 1..Len(chunks) |-> openaiZeroEmbedding]

\* a faulty variant of openaiCosineSimilarity: a zero denominator gives 0
openaiCosineSimilarityGuarded(vecA, vecB) ==
  IF Len(vecB) < Len(vecA) THEN NaN
  ELSE LET n          == Len(vecA)
           dotProduct == dotFrom(vecA, vecB, 1, n)
           normA      == dotFrom(vecA, vecA, 1, n)
           normB      == dotFrom(vecB, vecB, 1, n)
       IN IF normA * normB = 0 THEN SimZero
          ELSE Sim(dotProduct, normA * normB)

\* function cosineSimilarity(vecA, vecB) of part_005: the loop runs over
\* vecA.length (a missing vecB[i] is undefined and makes every sum NaN), and
\* the quotient is taken whatever the denominator is, so that a vector of
\* zeros gives 0 / 0
openaiCosineSimilarity(vecA, vecB) ==
  IF Len(vecB) < Len(vecA) THEN NaN
  ELSE LET n          == Len(vecA)
           dotProduct == dotFrom(vecA, vecB, 1, n)
           normA      == dotFrom(vecA, vecA, 1, n)
           normB      == dotFrom(vecB, vecB, 1, n)
       IN IF normA * normB = 0 THEN NaN
          ELSE Sim(dotProduct, normA * normB)

\* async function findRelevantChunks(query, chunks, embeddings, key, topK)
\* of part_005, given what the provider call for the query's embedding did.
\* The comparator b.similarity - a.similarity is NaN when one of the two is,
\* which sort reads as "equal": SimLess is false on NaN, and the stable
\* sort leaves a list of NaN scores in the order of the chunks.
openaiFindRelevantChunks(query, chunks, embeddings, queryResult, topK) ==
  IF queryResult.kind # "ok"
  THEN [i \in 1..Len(Take(chunks, topK)) |->
          [index |-> i - 1, similarity |-> SimHalf, chunk |-> chunks[i]]]
  ELSE Take(sortBySimilarity(
              [i \in 1..Len(embeddings) |->
                 [index      |-> i - 1,
                  similarity |-> openaiCosineSimilarity(queryResult.values,
                                                         embeddings[i]),
                  chunk      |-> chunks[i]]]),
            topK)
\* ------------------------------------------------------------------ inputs

Requests == 1..NumReq

AllSections ==
  {"about", "skills", "experience", "education", "projects", "certificates",
   "contact"}

\* what a request is: OPTIONS, GET on a URL that includes /warmup, POST, or
\* anything else
Methods == {"OPTIONS", "WARMUP", "POST", "OTHER"}

\* req.body.message: absent, the empty string, a number, or a question
MsgMissing == [type |-> "undefined", text |-> <<>>]

MsgEmpty == [type |-> "string", text |-> <<>>]

MsgNumber == [type |-> "number", text |-> <<"4","2">>]

MsgSkills ==
  [type |-> "string",
   text |-> <<"H","i","s"," ","s","k","i","l","l","s">>]

\* a question with a word that is no valid pattern
MsgPlus ==
  [type |-> "string",
   text |-> <<"c","+","+"," ","m","a","i","l">>]

Messages == {MsgMissing, MsgEmpty, MsgNumber, MsgSkills, MsgPlus}

\* a faulty variant of ValidMessage: the empty string passes
ValidMessageTypeOnly(m) == m.type = "string"

\* !message || typeof message !== 'string' is false
ValidMessage(m) == m.type = "string" /\ Len(m.text) > 0

NoSections == [s \in AllSections |-> <<>>]

\* What the portfolio URL can serve, as the section texts cheerio extracts:
\* a body without any of the anchors (an error page, a non-2xx body, broken
\* markup), a page with one short section, and a page with a section of more
\* than 50 characters.
PageNoSections == [structured |-> NoSections]

PageShort ==
  [structured |->
     [NoSections EXCEPT !["skills"] = <<"S","Q","L"," ","s","k","i","l","l","s">>]]

PageLong ==
  [structured |->
     [NoSections EXCEPT !["about"] = Repeat("a", MIN_SECTION_LENGTH + 1)]]

Pages == {PageNoSections, PageShort, PageLong}

\* what fetch(baseUrl) and response.text() do: a body, or a rejection
FetchOutcomes ==
  {[kind |-> "html", page |-> p] : p \in Pages}
    \cup {[kind |-> "error", page |-> PageNoSections]}

\* the vectors the embedding provider may answer with
ProviderVectors == {<<1, 0>>, <<0, 1>>}

\* what one call of the embedding provider does (see embeddingOf)
EmbedResults ==
  {[kind |-> "ok", values |-> v] : v \in ProviderVectors}
    \cup {[kind |-> "http_error", values |-> <<>>],
          [kind |-> "no_values", values |-> <<>>],
          [kind |-> "throws", values |-> <<>>]}

\* what the generation provider does: a 2xx answer, another status, a
\* rejected fetch, or a 2xx answer whose body response.json() cannot parse
GenerateOutcomes == {"ok", "http_error", "throws", "invalid_body"}

\* a turn of req.body.history as the handler reads it, { role, parts:
\* [{ text }] }, and a turn of the shape { role, text }
PartsTurn(role, text) ==
  [role |-> role, parts |-> Some(<<[text |-> text]>>), text |-> Null]

TextTurn(role, text) == [role |-> role, parts |-> Null, text |-> Some(text)]

\* req.body.history: absent, or two turns of one of the two shapes
Histories ==
  {Null,
   Some(<<PartsTurn("user", "hi"), PartsTurn("assistant", "hello")>>),
   Some(<<TextTurn("user", "hi"), TextTurn("model", "hello")>>)}

\* (history || []).map(entry => ({ role: entry.role === 'user' ? 'user' :
\* 'model', parts: [{ text: entry.parts[0].text }] })): entry.parts[0] raises
\* a TypeError on an entry without parts, and .text on an empty parts
historyContents(history) ==
  LET turns == IF history = Null THEN <<>> ELSE Get(history)
  IN IF \E i \in 1..Len(turns) :
          turns[i].parts = Null \/ Get(turns[i].parts) = <<>>
     THEN [throws |-> TRUE, contents |-> <<>>]
     ELSE [throws   |-> FALSE,
           contents |-> [i \in 1..Len(turns) |->
                           [role |-> IF turns[i].role = "user" THEN "user"
                                     ELSE "model",
                            kind |-> "turn",
                            text |-> Get(turns[i].parts)[1].text]]]

\* payload.contents (lines 606-635): the retrieved context, one part
\* "[section]: content" per relevant chunk, then the turns of the history,
\* then the question
payloadOf(message, history, relevant) ==
  LET turns == historyContents(history)
  IN [throws   |-> turns.throws,
      contents |->
        <<[role |-> "user",
           kind |-> "context",
           text |-> [i \in 1..Len(relevant) |->
                       [section |-> relevant[i].chunk.section,
                        content |-> relevant[i].chunk.content]]]>>
          \o turns.contents
          \o <<[role |-> "user", kind |-> "question", text |-> message]>>]

\* how far the clock moves in one step
ClockSteps == {CACHE_DURATION - 1, CACHE_DURATION}

\* "Ahmed Hazem Elabady - Junior Data Scientist from Cairo, Egypt" (61 characters)
STATIC_ABOUT ==
  <<"A","h","m","e","d"," ","H","a","z","e","m"," ","E","l","a","b","a","d",
    "y"," ","-"," ","J","u","n","i","o","r"," ","D","a","t","a"," ","S","c",
    "i","e","n","t","i","s","t"," ","f","r","o","m"," ","C","a","i","r","o",
    ","," ","E","g","y","p","t">>

\* "Python, Machine Learning, Data Analysis, Web Scraping, Computer Vision" (70 characters)
STATIC_SKILLS ==
  <<"P","y","t","h","o","n",","," ","M","a","c","h","i","n","e"," ","L","e",
    "a","r","n","i","n","g",","," ","D","a","t","a"," ","A","n","a","l","y",
    "s","i","s",","," ","W","e","b"," ","S","c","r","a","p","i","n","g",",",
    " ","C","o","m","p","u","t","e","r"," ","V","i","s","i","o","n">>

\* "Computer Vision Trainee at NTI, AI & Data Science Trainee at DEPI" (65 characters)
STATIC_EXPERIENCE ==
  <<"C","o","m","p","u","t","e","r"," ","V","i","s","i","o","n"," ","T","r",
    "a","i","n","e","e"," ","a","t"," ","N","T","I",","," ","A","I"," ","&",
    " ","D","a","t","a"," ","S","c","i","e","n","c","e"," ","T","r","a","i",
    "n","e","e"," ","a","t"," ","D","E","P","I">>

\* "B.Sc. Computer Science and Artificial Intelligence at Benha Faculty" (67 characters)
STATIC_EDUCATION ==
  <<"B",".","S","c","."," ","C","o","m","p","u","t","e","r"," ","S","c","i",
    "e","n","c","e"," ","a","n","d"," ","A","r","t","i","f","i","c","i","a",
    "l"," ","I","n","t","e","l","l","i","g","e","n","c","e"," ","a","t"," ",
    "B","e","n","h","a"," ","F","a","c","u","l","t","y">>

\* "Waste Detection using YOLO, Land Type Classification, COVID-19 X-ray Detection" (78 characters)
STATIC_PROJECTS ==
  <<"W","a","s","t","e"," ","D","e","t","e","c","t","i","o","n"," ","u","s",
    "i","n","g"," ","Y","O","L","O",","," ","L","a","n","d"," ","T","y","p",
    "e"," ","C","l","a","s","s","i","f","i","c","a","t","i","o","n",","," ",
    "C","O","V","I","D","-","1","9"," ","X","-","r","a","y"," ","D","e","t",
    "e","c","t","i","o","n">>

\* "NVIDIA Deep Learning, ITIDA Innovation" (38 characters)
STATIC_CERTIFICATES ==
  <<"N","V","I","D","I","A"," ","D","e","e","p"," ","L","e","a","r","n","i",
    "n","g",","," ","I","T","I","D","A"," ","I","n","n","o","v","a","t","i",
    "o","n">>

\* "ahmed.hazem.elabady@gmail.com, +20 127 5012 177" (47 characters)
STATIC_CONTACT ==
  <<"a","h","m","e","d",".","h","a","z","e","m",".","e","l","a","b","a","d",
    "y","@","g","m","a","i","l",".","c","o","m",","," ","+","2","0"," ","1",
    "2","7"," ","5","0","1","2"," ","1","7","7">>

\* the object scrapePortfolio returns from its catch block
staticContent ==
  [structured |->
     [about        |-> STATIC_ABOUT,
      skills       |-> STATIC_SKILLS,
      experience   |-> STATIC_EXPERIENCE,
      education    |-> STATIC_EDUCATION,
      projects     |-> STATIC_PROJECTS,
      certificates |-> STATIC_CERTIFICATES,
      contact      |-> STATIC_CONTACT]]

\* const fallbackContent of warmUpCache's and of the handler's catch block
fallbackContent ==
  [structured |->
     [about      |-> STATIC_ABOUT,
      skills     |-> STATIC_SKILLS,
      projects   |-> STATIC_PROJECTS,
      experience |-> STATIC_EXPERIENCE]]

\* async function scrapePortfolio(), once node-fetch is imported: the
\* sections of the fetched page, or the static content when the fetch or the
\* parse raises.  (fullContent and timestamp are never read and are left out.)
scrapePortfolio(outcome) ==
  IF outcome.kind = "html" THEN outcome.page ELSE staticContent

\* ------------------------------------------------------------------- state

VARIABLES
  cache,        \* let portfolioCache
  req,          \* per request: where its handler invocation stands, its locals
  wu,           \* per request: the warmUpCache invocation it started
  clock,        \* what Date.now() returns
  ticks,        \* how often the clock was advanced
  hung,         \* the event loop is stuck in a synchronous loop without end
  geminiApiKey, \* process.env.GEMINI_API_KEY is set
  nodeFetch,    \* import('node-fetch') resolves
  scrapeCalls,  \* history: the number of scrapePortfolio calls so far
  origin,       \* history: the refresh cycle each field of the cache is from
  call,         \* a function of the program called on its own: its
                \* arguments and, once it has returned, its result
  portfolioContextCache \* let portfolioContextCache of the summary-cache
                \* handler (chat.js 53)

vars ==
  <<cache, req, wu, clock, ticks, hung, geminiApiKey, nodeFetch, scrapeCalls,
    origin, call, portfolioContextCache>>

\* let portfolioCache = { content: null, ..., isWarmingUp: false }
emptyCache ==
  [content     |-> Null,
   chunks      |-> Null,
   embeddings  |-> Null,
   lastUpdated |-> Null,
   isWarmingUp |-> FALSE]

\* portfolioCache.isWarmingUp is truthy in the cache object c
Flag(c) == "isWarmingUp" \in DOMAIN c /\ c.isWarmingUp

\* c after c.isWarmingUp = v
SetFlag(c, v) ==
  [f \in DOMAIN c \cup {"isWarmingUp"} |->
     IF f = "isWarmingUp" THEN v ELSE c[f]]

\* a faulty variant of warmedCache: the warm-up stores no content
warmedCacheNoContent(content, chunks, embeddings, now) ==
  [content     |-> Null,
   chunks      |-> Some(chunks),
   embeddings  |-> Some(embeddings),
   lastUpdated |-> Some(now),
   isWarmingUp |-> FALSE]

\* the object warmUpCache assigns to portfolioCache (lines 60-66 and 87-93)
warmedCache(content, chunks, embeddings, now) ==
  [content     |-> Some(content),
   chunks      |-> Some(chunks),
   embeddings  |-> Some(embeddings),
   lastUpdated |-> Some(now),
   isWarmingUp |-> FALSE]

\* a faulty variant of refreshedCache: the embeddings are not stored
refreshedCacheNoEmbeddings(content, chunks, embeddings, now) ==
  [content     |-> Some(content),
   chunks      |-> Some(chunks),
   embeddings  |-> Null,
   lastUpdated |-> Some(now)]

\* the object the handler's inline refresh assigns to portfolioCache
\* (lines 560-565 and 584-589): it has no isWarmingUp property
refreshedCache(content, chunks, embeddings, now) ==
  [content     |-> Some(content),
   chunks      |-> Some(chunks),
   embeddings  |-> Some(embeddings),
   lastUpdated |-> Some(now)]

\* every field of the cache written by refresh cycle c
originOf(c) ==
  [content |-> c, chunks |-> c, embeddings |-> c, lastUpdated |-> c]

\* a faulty variant of cacheValid: the age is compared with <= instead of <
cacheValidInclusive(c, now) ==
  /\ c.content # Null
  /\ c.lastUpdated # Null
  /\ Get(c.lastUpdated) # 0
  /\ now - Get(c.lastUpdated) <= CACHE_DURATION

\* portfolioCache.content && portfolioCache.lastUpdated &&
\* (now - portfolioCache.lastUpdated) < CACHE_DURATION
cacheValid(c, now) ==
  /\ c.content # Null
  /\ c.lastUpdated # Null
  /\ Get(c.lastUpdated) # 0
  /\ now - Get(c.lastUpdated) < CACHE_DURATION

\* a faulty variant of loopContinues: the bound on retries is off by one
loopContinuesOffByOne(c, retries) == Flag(c) /\ retries <= MAX_RETRIES

\* portfolioCache.isWarmingUp && retries < 30, the condition of the wait loop
loopContinues(c, retries) == Flag(c) /\ retries < MAX_RETRIES

\* Math.round(ms / 1000 / 60)
roundMinutes(ms) == (2 * ms + 60000) \div 120000

newRequest ==
  [pc        |-> "new",
   method    |-> "",
   message   |-> MsgMissing,
   retries   |-> 0,
   now       |-> 0,
   scraped   |-> Null,
   chunks    |-> Null,
   ranked    |-> Null,     \* the chunks and embeddings handed to the ranker
   relevant  |-> Null,
   mode      |-> "",
   status    |-> 0,
   debug     |-> Null,
   answered  |-> Null,     \* history: the cycles its debug object was read from
   error     |-> "",       \* the error of the answer's body, if it has one
   history   |-> Null,     \* req.body.history, once the handler has read it
   payload   |-> Null,     \* the contents sent to the generation call
   raised    |-> "",       \* history: the exception its try block caught
   scoring   |-> "",       \* history: the scoring that ranked its chunks
   generation |-> "",      \* history: what its generation call did
   cycle     |-> 0,        \* history: the refresh cycle this request ran
   sawEmpty  |-> FALSE,    \* history: it arrived on a cache without content
   timedOut  |-> FALSE,    \* history: it left the wait loop with the flag set
   checked   |-> Null]     \* history: the cache state its validity check saw

noWarmUp ==
  [pc |-> "none", now |-> 0, scraped |-> Null, chunks |-> Null, cycle |-> 0]

Init ==
  /\ cache = emptyCache
  /\ req = [r \in Requests |-> newRequest]
  /\ wu = [r \in Requests |-> noWarmUp]
  /\ clock = CACHE_DURATION
  /\ ticks = 0
  /\ hung = FALSE
  /\ geminiApiKey \in BOOLEAN
  /\ nodeFetch \in BOOLEAN
  /\ scrapeCalls = 0
  /\ origin = originOf(0)
  /\ call = Null
  /\ portfolioContextCache = Null

\* request r is the next one to arrive
Arrives(r) ==
  /\ ~hung
  /\ req[r].pc = "new"
  /\ r > 1 => req[r - 1].pc # "new"

\* res.status(s).json(...) / .end(): the handler invocation is over
respond(q, s) == [q EXCEPT !.pc = "done", !.status = s]

\* res.status(s).json({ error: e })
fail(q, s, e) == [respond(q, s) EXCEPT !.error = e]

\* a faulty variant of catchError: the body carries the exception
catchErrorLeaks(q, err) == [fail(q, 500, err) EXCEPT !.raised = err]

\* catch (err) { console.error(...); return res.status(500).json({ error:
\* 'Server error' }) } (lines 667-670)
catchError(q, err) == [fail(q, 500, "Server error") EXCEPT !.raised = err]

\* a faulty variant of StartWarmUp: the flag is not set
StartWarmUpNoFlag(r) ==
  /\ cache' = cache
  /\ wu' = [wu EXCEPT ![r] =
              [pc |-> "scrape", now |-> clock, scraped |-> Null,
               chunks |-> Null, cycle |-> scrapeCalls + 1]]
  /\ scrapeCalls' = scrapeCalls + 1

\* warmUpCache(geminiApiKey) up to its first await: the flag is set, now is
\* read, scrapePortfolio is called and awaits its import
StartWarmUp(r) ==
  /\ cache' = SetFlag(cache, TRUE)
  /\ wu' = [wu EXCEPT ![r] =
              [pc |-> "scrape", now |-> clock, scraped |-> Null,
               chunks |-> Null, cycle |-> scrapeCalls + 1]]
  /\ scrapeCalls' = scrapeCalls + 1

\* a faulty variant of callRanker: the embeddings handed to the ranker are the ones
\* read before the refresh that has just replaced the cache
callRankerStaleEmbeddings(q, c, o) ==
  [q EXCEPT !.pc = "rank",
            !.ranked = Some([chunks     |-> c.chunks,
                             embeddings |-> cache.embeddings,
                             origin     |-> [o EXCEPT !.embeddings =
                                                        origin.embeddings]])]

\* the call of findRelevantChunks (line 596) on the cache c, whose fields
\* are from the cycles o: its arguments are read from c in one step
callRanker(q, c, o) ==
  [q EXCEPT !.pc = "rank",
            !.ranked = Some([chunks     |-> c.chunks,
                             embeddings |-> c.embeddings,
                             origin     |-> o])]

\* The handler from "Check cache validity" (line 531) to its next await, for
\* the request record q: on a valid cache findRelevantChunks is called with
\* the cache's chunks and embeddings, otherwise scrapePortfolio is called.
\* c is the cache at that moment.
checkCache(q, c) ==
  LET now   == clock
      seen  == Some([populated |-> c.content # Null,
                     age       |-> IF c.lastUpdated # Null
                                   THEN now - Get(c.lastUpdated) ELSE 0,
                     flag      |-> Flag(c)])
  IN IF cacheValid(c, now)
     THEN callRanker([q EXCEPT !.now = now, !.checked = seen], c, origin)
     ELSE [q EXCEPT !.pc = "scrape", !.now = now, !.checked = seen,
                    !.cycle = scrapeCalls + 1]

\* the number of scrapePortfolio calls after checkCache(q, c)
scrapesAfterCheck(c) ==
  IF cacheValid(c, clock) THEN scrapeCalls ELSE scrapeCalls + 1

\* ------------------------------------------------- the RAG handler: arrival

\* if (req.method === 'OPTIONS') return res.status(204).end()
Options(r) ==
  /\ Arrives(r)
  /\ req' = [req EXCEPT ![r] = respond([@ EXCEPT !.method = "OPTIONS"], 204)]
  /\ UNCHANGED <<cache, wu, clock, ticks, hung, geminiApiKey, nodeFetch,
                 scrapeCalls, origin>>
  /\ UNCHANGED <<call, portfolioContextCache>>

\* if (req.method !== 'POST') return res.status(405)...
MethodNotAllowed(r) ==
  /\ Arrives(r)
  /\ req' = [req EXCEPT ![r] = fail([@ EXCEPT !.method = "OTHER"], 405,
                                     "Method Not Allowed")]
  /\ UNCHANGED <<cache, wu, clock, ticks, hung, geminiApiKey, nodeFetch,
                 scrapeCalls, origin>>
  /\ UNCHANGED <<call, portfolioContextCache>>

\* the body of the 200 answer of GET /warmup, read from the cache c
warmupBody(c) ==
  [status      |-> IF Flag(c) THEN "warming-up"
                   ELSE IF c.content # Null THEN "ready" ELSE "starting",
   chunksReady |-> IF c.chunks # Null THEN Len(Get(c.chunks)) ELSE 0]

\* GET /warmup (lines 480-497)
Warmup(r) ==
  /\ Arrives(r)
  /\ IF ~geminiApiKey
     THEN /\ req' = [req EXCEPT ![r] =
                       fail([@ EXCEPT !.method = "WARMUP"], 500,
                            "GEMINI_API_KEY not configured")]
          /\ UNCHANGED <<cache, wu, scrapeCalls>>
     ELSE IF cache.content = Null /\ ~Flag(cache)
     THEN /\ StartWarmUp(r)
          /\ req' = [req EXCEPT ![r] =
                       respond([@ EXCEPT !.method = "WARMUP",
                                         !.sawEmpty = TRUE,
                                         !.debug = Some(warmupBody(cache'))],
                               200)]
     ELSE /\ req' = [req EXCEPT ![r] =
                       respond([@ EXCEPT !.method = "WARMUP",
                                         !.sawEmpty = cache.content = Null,
                                         !.debug = Some(warmupBody(cache))],
                               200)]
          /\ UNCHANGED <<cache, wu, scrapeCalls>>
  /\ UNCHANGED <<clock, ticks, hung, geminiApiKey, nodeFetch, origin>>
  /\ UNCHANGED <<call, portfolioContextCache>>

\* POST with a message that is missing, empty or not a string (lines 504-507)
PostRejected(r) ==
  /\ Arrives(r)
  /\ \E m \in Messages :
       /\ ~ValidMessage(m)
       /\ req' = [req EXCEPT ![r] =
                    fail([@ EXCEPT !.method = "POST", !.message = m], 400,
                         "Missing \"message\" string")]
  /\ UNCHANGED <<cache, wu, clock, ticks, hung, geminiApiKey, nodeFetch,
                 scrapeCalls, origin>>
  /\ UNCHANGED <<call, portfolioContextCache>>

\* a faulty variant of PostNotConfigured: the warm-up is started before the
\* key is looked at
PostNotConfiguredStartsWarmUp(r) ==
  /\ Arrives(r)
  /\ ~geminiApiKey
  /\ cache.content = Null /\ ~Flag(cache)
  /\ StartWarmUp(r)
  /\ \E m \in Messages :
       /\ ValidMessage(m)
       /\ req' = [req EXCEPT ![r] =
                    fail([@ EXCEPT !.method = "POST", !.message = m], 500,
                         "Server is not configured with GEMINI_API_KEY")]
  /\ UNCHANGED <<clock, ticks, hung, geminiApiKey, nodeFetch, origin, call,
                 portfolioContextCache>>

\* POST without GEMINI_API_KEY (lines 509-513)
PostNotConfigured(r) ==
  /\ Arrives(r)
  /\ ~geminiApiKey
  /\ \E m \in Messages :
       /\ ValidMessage(m)
       /\ req' = [req EXCEPT ![r] =
                    fail([@ EXCEPT !.method = "POST", !.message = m], 500,
                         "Server is not configured with GEMINI_API_KEY")]
  /\ UNCHANGED <<cache, wu, clock, ticks, hung, geminiApiKey, nodeFetch,
                 scrapeCalls, origin>>
  /\ UNCHANGED <<call, portfolioContextCache>>

\* POST on an empty cache with no warm-up running (lines 515-529): the
\* warm-up is started, and the request sleeps in the wait loop
PostStartsWarmUp(r) ==
  /\ Arrives(r)
  /\ geminiApiKey
  /\ cache.content = Null /\ ~Flag(cache)
  /\ StartWarmUp(r)
  /\ \E m \in Messages :
       /\ ValidMessage(m)
       /\ req' = [req EXCEPT ![r] =
                    [@ EXCEPT !.method = "POST", !.message = m,
                              !.sawEmpty = TRUE, !.pc = "wait"]]
  /\ UNCHANGED <<clock, ticks, hung, geminiApiKey, nodeFetch, origin>>
  /\ UNCHANGED <<call, portfolioContextCache>>

\* POST while a warm-up is running (lines 521-529): the request sleeps in
\* the wait loop
PostWaits(r) ==
  /\ Arrives(r)
  /\ geminiApiKey
  /\ Flag(cache)
  /\ \E m \in Messages :
       /\ ValidMessage(m)
       /\ req' = [req EXCEPT ![r] =
                    [@ EXCEPT !.method = "POST", !.message = m,
                              !.sawEmpty = cache.content = Null,
                              !.pc = "wait"]]
  /\ UNCHANGED <<cache, wu, clock, ticks, hung, geminiApiKey, nodeFetch,
                 scrapeCalls, origin>>
  /\ UNCHANGED <<call, portfolioContextCache>>

\* POST on a cache with content and no warm-up running: straight to the
\* validity check (line 531)
PostChecksCache(r) ==
  /\ Arrives(r)
  /\ geminiApiKey
  /\ cache.content # Null /\ ~Flag(cache)
  /\ \E m \in Messages :
       /\ ValidMessage(m)
       /\ req' = [req EXCEPT ![r] =
                    checkCache([@ EXCEPT !.method = "POST", !.message = m],
                               cache)]
  /\ scrapeCalls' = scrapesAfterCheck(cache)
  /\ UNCHANGED <<cache, wu, clock, ticks, hung, geminiApiKey, nodeFetch,
                 origin>>
  /\ UNCHANGED <<call, portfolioContextCache>>

\* A sleeping request wakes (lines 525-528): retries++, and the loop goes on
\* while the flag is set and retries < 30; otherwise the handler goes on to
\* the validity check (retries is local to the if block and is gone then).
Wake(r) ==
  /\ ~hung
  /\ req[r].pc = "wait"
  /\ LET n == req[r].retries + 1
     IN IF loopContinues(cache, n)
        THEN /\ req' = [req EXCEPT ![r].retries = n]
             /\ UNCHANGED scrapeCalls
        ELSE /\ req' = [req EXCEPT ![r] =
                          checkCache([@ EXCEPT !.retries = 0,
                                               !.timedOut = Flag(cache)],
                                     cache)]
             /\ scrapeCalls' = scrapesAfterCheck(cache)
  /\ UNCHANGED <<cache, wu, clock, ticks, hung, geminiApiKey, nodeFetch,
                 origin>>
  /\ UNCHANGED <<call, portfolioContextCache>>

\* ---------------------------------------- the RAG handler: inline refresh

\* the result sequences of the embedding calls for n chunks
EmbedResultSeqs(n) == [1..n -> EmbedResults]

\* The awaited scrapePortfolio() of the inline refresh returns (lines
\* 540-546 and, when it raised, 569-592).  splitIntoChunks runs in the same
\* step; when it does not return, nothing else of the process runs again.
HandlerScrapeReturns(r) ==
  /\ ~hung
  /\ req[r].pc = "scrape"
  /\ IF nodeFetch
     THEN \E outcome \in FetchOutcomes :
            LET content == scrapePortfolio(outcome)
                split   == splitIntoChunks(content, DEFAULT_CHUNK_SIZE,
                                           DEFAULT_OVERLAP)
            IN IF split.diverges
               THEN /\ hung' = TRUE
                    /\ req' = [req EXCEPT ![r].pc = "chunking",
                                          ![r].scraped = Some(content)]
                    /\ UNCHANGED <<cache, origin>>
               ELSE /\ req' = [req EXCEPT ![r].pc = "embed",
                                          ![r].scraped = Some(content),
                                          ![r].chunks = Some(split.chunks)]
                    /\ UNCHANGED <<cache, origin, hung>>
     ELSE LET split == splitIntoChunks(fallbackContent, DEFAULT_CHUNK_SIZE,
                                       DEFAULT_OVERLAP)
          IN IF split.diverges
             THEN /\ hung' = TRUE
                  /\ req' = [req EXCEPT ![r].pc = "chunking"]
                  /\ UNCHANGED <<cache, origin>>
             ELSE /\ cache' = refreshedCache(fallbackContent, split.chunks,
                                dummyEmbeddings(split.chunks), req[r].now)
                  /\ origin' = originOf(req[r].cycle)
                  /\ req' = [req EXCEPT ![r] =
                               callRanker(@, cache', origin')]
                  /\ UNCHANGED hung
  /\ UNCHANGED <<wu, clock, ticks, geminiApiKey, nodeFetch, scrapeCalls>>
  /\ UNCHANGED <<call, portfolioContextCache>>

\* The awaited generateEmbeddings() of the inline refresh returns (lines
\* 549-567): the cache is replaced and findRelevantChunks is called.
HandlerEmbedReturns(r) ==
  /\ ~hung
  /\ req[r].pc = "embed"
  /\ \E results \in EmbedResultSeqs(Len(Get(req[r].chunks))) :
       /\ cache' = refreshedCache(Get(req[r].scraped), Get(req[r].chunks),
                      generateEmbeddings(Get(req[r].chunks), results),
                      req[r].now)
       /\ origin' = originOf(req[r].cycle)
       /\ req' = [req EXCEPT ![r] =
                    callRanker([@ EXCEPT !.scraped = Null, !.chunks = Null],
                               cache', origin')]
  /\ UNCHANGED <<wu, clock, ticks, hung, geminiApiKey, nodeFetch,
                 scrapeCalls>>
  /\ UNCHANGED <<call, portfolioContextCache>>

\* ------------------------------------- the RAG handler: rank and generate

\* what the provider call for the query's embedding does
QueryResults(embeddings) ==
  IF hasValidEmbeddings(embeddings) THEN EmbedResults
  ELSE {[kind |-> "none", values |-> <<>>]}

\* findRelevantChunks returns and the handler runs to the generation call
\* (lines 596-644): the ranking is kept, the mode of the answer is read from
\* the cache as it is now, and the payload is built from the ranking, the
\* history of the request body and the message.  An exception of the
\* ranker or of the mapping of the history is caught at line 667.
RankReturns(r) ==
  /\ ~hung
  /\ req[r].pc = "rank"
  /\ LET snap == Get(req[r].ranked)
     IN \E queryResult \in QueryResults(snap.embeddings), history \in Histories :
          LET res    == findRelevantChunks(req[r].message.text, snap.chunks,
                                           snap.embeddings, queryResult, TOP_K)
              pay    == payloadOf(req[r].message.text, history, res.items)
              ranked == [req[r] EXCEPT
                           !.relevant = Some(res.items),
                           !.scoring = res.mode,
                           !.mode = IF hasValidEmbeddings(cache.embeddings)
                                    THEN "semantic-embeddings"
                                    ELSE "keyword-matching",
                           !.history = history]
          IN req' = [req EXCEPT ![r] =
                       IF res.throws
                       THEN catchError(@, IF snap.chunks = Null
                                          THEN "TypeError"
                                          ELSE "SyntaxError")
                       ELSE IF pay.throws
                       THEN catchError(ranked, "TypeError")
                       ELSE [ranked EXCEPT
                               !.pc = "generate",
                               !.payload = Some(pay.contents)]]
  /\ UNCHANGED <<cache, wu, clock, ticks, hung, geminiApiKey, nodeFetch,
                 scrapeCalls, origin>>
  /\ UNCHANGED <<call, portfolioContextCache>>

\* the debug object of the 200 answer (lines 659-664), read from the cache c
debugOf(q, c) ==
  [chunksUsed  |-> Len(Get(q.relevant)),
   cacheAge    |-> roundMinutes(q.now - Get(c.lastUpdated)),
   mode        |-> q.mode,
   totalChunks |-> IF c.chunks # Null THEN Len(Get(c.chunks)) ELSE 0]

\* the generation call returns (lines 637-670): fetch rejects, or it
\* answers and the answer's status and body are read
GenerateReturns(r) ==
  /\ ~hung
  /\ req[r].pc = "generate"
  /\ \E outcome \in GenerateOutcomes :
       LET q == [req[r] EXCEPT !.generation = outcome]
       IN req' = [req EXCEPT ![r] =
                    IF outcome = "ok"
                    THEN respond([q EXCEPT !.debug = Some(debugOf(q, cache)),
                                              !.answered = Some(origin)],
                                 200)
                    ELSE IF outcome = "http_error"
                    THEN fail(q, 502, "Gemini API error")
                    ELSE catchError(q, IF outcome = "throws" THEN "FetchError"
                                       ELSE "SyntaxError")]
  /\ UNCHANGED <<cache, wu, clock, ticks, hung, geminiApiKey, nodeFetch,
                 scrapeCalls, origin>>
  /\ UNCHANGED <<call, portfolioContextCache>>

\* ----------------------------------------------------------- warmUpCache

\* The awaited scrapePortfolio() of warmUpCache returns (lines 42-46 and,
\* when it raised, 70-96).
WarmUpScrapeReturns(r) ==
  /\ ~hung
  /\ wu[r].pc = "scrape"
  /\ IF nodeFetch
     THEN \E outcome \in FetchOutcomes :
            LET content == scrapePortfolio(outcome)
                split   == splitIntoChunks(content, DEFAULT_CHUNK_SIZE,
                                           DEFAULT_OVERLAP)
            IN IF split.diverges
               THEN /\ hung' = TRUE
                    /\ wu' = [wu EXCEPT ![r].pc = "chunking",
                                        ![r].scraped = Some(content)]
                    /\ UNCHANGED <<cache, origin>>
               ELSE /\ wu' = [wu EXCEPT ![r].pc = "embed",
                                        ![r].scraped = Some(content),
                                        ![r].chunks = Some(split.chunks)]
                    /\ UNCHANGED <<cache, origin, hung>>
     ELSE LET split == splitIntoChunks(fallbackContent, DEFAULT_CHUNK_SIZE,
                                       DEFAULT_OVERLAP)
          IN IF split.diverges
             THEN /\ hung' = TRUE
                  /\ cache' = SetFlag(cache, FALSE)
                  /\ wu' = [wu EXCEPT ![r].pc = "chunking"]
                  /\ UNCHANGED origin
             ELSE /\ cache' = warmedCache(fallbackContent, split.chunks,
                                dummyEmbeddings(split.chunks), clock)
                  /\ origin' = originOf(wu[r].cycle)
                  /\ wu' = [wu EXCEPT ![r].pc = "done"]
                  /\ UNCHANGED hung
  /\ UNCHANGED <<req, clock, ticks, geminiApiKey, nodeFetch, scrapeCalls>>
  /\ UNCHANGED <<call, portfolioContextCache>>

\* The awaited generateEmbeddings() of warmUpCache returns (lines 49-68):
\* the cache is replaced.
WarmUpEmbedReturns(r) ==
  /\ ~hung
  /\ wu[r].pc = "embed"
  /\ \E results \in EmbedResultSeqs(Len(Get(wu[r].chunks))) :
       cache' = warmedCache(Get(wu[r].scraped), Get(wu[r].chunks),
                  generateEmbeddings(Get(wu[r].chunks), results), wu[r].now)
  /\ origin' = originOf(wu[r].cycle)
  /\ wu' = [wu EXCEPT ![r].pc = "done", ![r].scraped = Null,
                      ![r].chunks = Null]
  /\ UNCHANGED <<req, clock, ticks, hung, geminiApiKey, nodeFetch,
                 scrapeCalls>>
  /\ UNCHANGED <<call, portfolioContextCache>>

\* ------------------------------------------------------------------ time

\* A request is sleeping in the wait loop.
Sleeping == \E r \in Requests : req[r].pc = "wait"

\* Time passes.  Nothing bounds how long a fetch takes, so the clock may
\* move at any point of a request; a sleep of the wait loop lasts a second,
\* and the clock is not moved across it.
Advance ==
  /\ ~hung
  /\ ticks < MaxTicks
  /\ ~Sleeping
  /\ \E d \in ClockSteps : clock' = clock + d
  /\ ticks' = ticks + 1
  /\ UNCHANGED <<cache, req, wu, hung, geminiApiKey, nodeFetch, scrapeCalls,
                 origin>>
  /\ UNCHANGED <<call, portfolioContextCache>>

Next ==
  \/ \E r \in Requests :
       \/ Options(r)
       \/ MethodNotAllowed(r)
       \/ Warmup(r)
       \/ PostRejected(r)
       \/ PostNotConfigured(r)
       \/ PostStartsWarmUp(r)
       \/ PostWaits(r)
       \/ PostChecksCache(r)
       \/ Wake(r)
       \/ HandlerScrapeReturns(r)
       \/ HandlerEmbedReturns(r)
       \/ RankReturns(r)
       \/ GenerateReturns(r)
       \/ WarmUpScrapeReturns(r)
       \/ WarmUpEmbedReturns(r)
  \/ Advance

Spec == Init /\ [][Next]_vars

\* ============ the keyword-only handler (src/api/chat.js, lines 167-475)
\*
\* It shares the shape of the RAG handler: the steps that are the same text
\* in both files (OPTIONS, 405, the message check, the key check, the start
\* of the warm-up, the wait loop's entry, the generation call) are the
\* actions above; what differs is below.

\* let portfolioCache = { content: null, chunks: null, lastUpdated: null,
\* isWarmingUp: false }
kwEmptyCache ==
  [content     |-> Null,
   chunks      |-> Null,
   lastUpdated |-> Null,
   isWarmingUp |-> FALSE]

\* async function scrapePortfolio() of chat.js, once node-fetch is imported:
\* the seven section texts of the fetched page, or the static ones when the
\* fetch or the parse raises
kwScrapePortfolio(outcome) ==
  IF outcome.kind = "html" THEN outcome.page.structured
  ELSE staticContent.structured

\* const sections of createSimpleChunks
kwSections ==
  <<"about", "skills", "experience", "education", "projects", "certificates",
    "contact">>

\* the forEach of createSimpleChunks from section number i on
RECURSIVE createSimpleChunksFrom(_, _, _)
createSimpleChunksFrom(content, i, acc) ==
  IF i > Len(kwSections) THEN acc
  ELSE LET section == kwSections[i]
           text    == content[section]
       IN createSimpleChunksFrom(content, i + 1,
            IF Len(text) > MIN_SECTION_LENGTH
            THEN Append(acc, [content |-> text,
                              section |-> section,
                              type    |-> "structured"])
            ELSE acc)

\* function createSimpleChunks(content)
createSimpleChunks(content) == createSimpleChunksFrom(content, 1, <<>>)

\* the sections whose score findRelevantContent multiplies by 1.2
kwBoostedSections == {"about", "skills", "projects"}

\* the forEach of findRelevantContent from chunk number i on: the score of
\* a boosted chunk is multiplied by 1.2 (6/5), and a chunk is kept when its
\* score is positive, with similarity score / queryWords.length
RECURSIVE kwScoreChunks(_, _, _, _)
kwScoreChunks(words, chunks, i, acc) ==
  IF i > Len(chunks) THEN acc
  ELSE LET chunk   == chunks[i]
           matches == sumMatches(words, ToLowerCase(chunk.content))
           score5  == IF chunk.section \in kwBoostedSections
                      THEN 6 * matches ELSE 5 * matches
       IN kwScoreChunks(words, chunks, i + 1,
            IF score5 > 0
            THEN Append(acc,
                   [index      |-> i - 1,
                    similarity |-> Sim(score5,
                                       25 * Len(words) * Len(words)),
                    chunk      |-> chunk])
            ELSE acc)

\* function findRelevantContent(query, chunks, topK = 3).  On chunks null,
\* chunks.forEach raises a TypeError.
findRelevantContent(query, chunks, topK) ==
  IF chunks = Null THEN [throws |-> TRUE, items |-> <<>>]
  ELSE IF Get(chunks) # <<>> /\ invalidWords(queryWordsOf(query))
  THEN [throws |-> TRUE, items |-> <<>>]
  ELSE [throws |-> FALSE,
        items  |-> Take(sortBySimilarity(
                          kwScoreChunks(queryWordsOf(query), Get(chunks),
                                        1, <<>>)),
                        topK)]

\* the object warmUpCache of chat.js assigns to portfolioCache (lines 317-322)
kwWarmedCache(content, chunks, now) ==
  [content     |-> Some(content),
   chunks      |-> Some(chunks),
   lastUpdated |-> Some(now),
   isWarmingUp |-> FALSE]

KwInit ==
  /\ cache = kwEmptyCache
  /\ req = [r \in Requests |-> newRequest]
  /\ wu = [r \in Requests |-> noWarmUp]
  /\ clock = CACHE_DURATION
  /\ ticks = 0
  /\ hung = FALSE
  /\ geminiApiKey \in BOOLEAN
  /\ nodeFetch \in BOOLEAN
  /\ scrapeCalls = 0
  /\ origin = originOf(0)
  /\ call = Null
  /\ portfolioContextCache = Null

\* The handler from findRelevantContent (line 414) to the generation fetch
\* (line 441), for the request record q, on the cache c: a TypeError of the
\* ranking, or a failed import of node-fetch, is caught at line 471 and
\* answered 500.
kwRank(q, c) ==
  LET res   == findRelevantContent(q.message.text, c.chunks, TOP_K)
      asked == [q EXCEPT !.ranked = Some([chunks     |-> c.chunks,
                                          embeddings |-> Null,
                                          origin     |-> origin]),
                         !.mode = "keyword-matching"]
  IN IF res.throws
     THEN catchError(asked, IF c.chunks = Null THEN "TypeError"
                            ELSE "SyntaxError")
     ELSE IF ~nodeFetch
          THEN catchError([asked EXCEPT !.relevant = Some(res.items)],
                          "ERR_MODULE_NOT_FOUND")
          ELSE [asked EXCEPT !.relevant = Some(res.items),
                             !.pc = "generate"]

\* The handler from "Check cache validity" (line 403) to its next await that
\* is not settled at once, for request r whose record is q: on a valid
\* cache it ranks; otherwise it awaits warmUpCache(), which returns at once
\* when a warm-up is running (lines 299-302), and the handler ranks what the
\* cache holds; or which starts a warm-up the handler waits for.
kwCheckCache(r, q) ==
  LET now  == clock
      seen == Some([populated |-> cache.content # Null,
                    age       |-> IF cache.lastUpdated # Null
                                  THEN now - Get(cache.lastUpdated) ELSE 0,
                    flag      |-> Flag(cache)])
      q1   == [q EXCEPT !.now = now, !.checked = seen]
  IN IF cacheValid(cache, now) \/ Flag(cache)
     THEN /\ req' = [req EXCEPT ![r] = kwRank(q1, cache)]
          /\ UNCHANGED <<cache, wu, scrapeCalls>>
     ELSE /\ StartWarmUp(r)
          /\ req' = [req EXCEPT ![r] =
                       [q1 EXCEPT !.pc = "refresh",
                                  !.cycle = scrapeCalls + 1]]

\* a faulty variant of KwWarmup: a running warm-up is not looked at
KwWarmupIgnoresFlag(r) ==
  /\ Arrives(r)
  /\ IF cache.content = Null
     THEN /\ StartWarmUp(r)
          /\ req' = [req EXCEPT ![r] =
                       respond([@ EXCEPT !.method = "WARMUP",
                                         !.sawEmpty = TRUE,
                                         !.debug = Some(warmupBody(cache'))],
                               200)]
     ELSE /\ req' = [req EXCEPT ![r] =
                       respond([@ EXCEPT !.method = "WARMUP",
                                         !.debug = Some(warmupBody(cache))],
                               200)]
          /\ UNCHANGED <<cache, wu, scrapeCalls>>
  /\ UNCHANGED <<clock, ticks, hung, geminiApiKey, nodeFetch, origin>>
  /\ UNCHANGED <<call, portfolioContextCache>>

\* GET /warmup (lines 358-369)
KwWarmup(r) ==
  /\ Arrives(r)
  /\ IF cache.content = Null /\ ~Flag(cache)
     THEN /\ StartWarmUp(r)
          /\ req' = [req EXCEPT ![r] =
                       respond([@ EXCEPT !.method = "WARMUP",
                                         !.sawEmpty = TRUE,
                                         !.debug = Some(warmupBody(cache'))],
                               200)]
     ELSE /\ req' = [req EXCEPT ![r] =
                       respond([@ EXCEPT !.method = "WARMUP",
                                         !.sawEmpty = cache.content = Null,
                                         !.debug = Some(warmupBody(cache))],
                               200)]
          /\ UNCHANGED <<cache, wu, scrapeCalls>>
  /\ UNCHANGED <<clock, ticks, hung, geminiApiKey, nodeFetch, origin>>
  /\ UNCHANGED <<call, portfolioContextCache>>

\* POST on a cache with content and no warm-up running: straight to the
\* validity check (line 403)
KwPostChecksCache(r) ==
  /\ Arrives(r)
  /\ geminiApiKey
  /\ cache.content # Null /\ ~Flag(cache)
  /\ \E m \in Messages :
       /\ ValidMessage(m)
       /\ kwCheckCache(r, [req[r] EXCEPT !.method = "POST", !.message = m])
  /\ UNCHANGED <<clock, ticks, hung, geminiApiKey, nodeFetch, origin>>
  /\ UNCHANGED <<call, portfolioContextCache>>

\* A sleeping request wakes (lines 396-399): retries++, and the loop goes on
\* while the flag is set and retries < 30; otherwise the handler goes on to
\* the validity check.
KwWake(r) ==
  /\ req[r].pc = "wait"
  /\ LET n == req[r].retries + 1
     IN IF loopContinues(cache, n)
        THEN /\ req' = [req EXCEPT ![r].retries = n]
             /\ UNCHANGED <<cache, wu, scrapeCalls>>
        ELSE kwCheckCache(r, [req[r] EXCEPT !.retries = 0,
                                            !.timedOut = Flag(cache)])
  /\ UNCHANGED <<clock, ticks, hung, geminiApiKey, nodeFetch, origin>>
  /\ UNCHANGED <<call, portfolioContextCache>>

\* The awaited scrapePortfolio() of warmUpCache returns (lines 311-328): the
\* chunks are made and the cache is replaced; when the import of node-fetch
\* raised, the catch block clears the flag and leaves the rest.  A handler
\* that awaits this warmUpCache (line 410) goes on to rank.
KwWarmUpScrapeReturns(r) ==
  /\ wu[r].pc = "scrape"
  /\ wu' = [wu EXCEPT ![r].pc = "done"]
  /\ IF ~nodeFetch
     THEN cache' = SetFlag(cache, FALSE)
     ELSE \E outcome \in FetchOutcomes :
            LET content == kwScrapePortfolio(outcome)
            IN cache' = kwWarmedCache(content, createSimpleChunks(content),
                                      wu[r].now)
  /\ req' = IF req[r].pc = "refresh"
            THEN [req EXCEPT ![r] = kwRank(@, cache')]
            ELSE req
  /\ UNCHANGED <<clock, ticks, hung, geminiApiKey, nodeFetch, scrapeCalls,
                 origin>>
  /\ UNCHANGED <<call, portfolioContextCache>>

KwNext ==
  \/ \E r \in Requests :
       \/ Options(r)
       \/ MethodNotAllowed(r)
       \/ KwWarmup(r)
       \/ PostRejected(r)
       \/ PostNotConfigured(r)
       \/ PostStartsWarmUp(r)
       \/ PostWaits(r)
       \/ KwPostChecksCache(r)
       \/ KwWake(r)
       \/ KwWarmUpScrapeReturns(r)
       \/ GenerateReturns(r)
  \/ Advance

SpecKw == KwInit /\ [][KwNext]_vars

\* ======================================================= properties: keyword

\* request r has reached the ranking of the keyword-only handler while the
\* cache held no chunks: no refresh had completed
RankedCold(r) ==
  /\ req[r].ranked # Null
  /\ Get(req[r].ranked).chunks = Null

\* C6: a request of the keyword-only handler that reaches ranking while no
\* refresh has completed gets the empty ranking and goes on to the
\* generation call; it is not answered 500 at the ranking.
C6_ColdRankingIsEmpty ==
  \A r \in Requests :
    (nodeFetch /\ RankedCold(r)) =>
      /\ req[r].relevant = Some(<<>>)
      /\ req[r].pc = "generate" \/ req[r].status \in {200, 502}


\* ================================ the functions of the RAG handler, alone
\*
\* splitText, splitIntoChunks, generateEmbeddings, findRelevantChunks, the
\* keyword rankers and cosineSimilarity read nothing but their arguments
\* (and, for generateEmbeddings and findRelevantChunks, what the provider
\* answers).  Here each is called once on arguments drawn from
\* bounded sets, and `call` holds the arguments and then the result.

\* the longest text splitText is called on
MaxTextLen == 3

\* the largest window splitText is called with, besides the two defaults
MaxWindow == 3

\* the longest chunk list generateEmbeddings and findRelevantChunks get
MaxChunks == 2

\* chunkSize = 500, overlap = 50: the defaults of splitIntoChunks in the
\* OpenAI variant of the handler
ALT_CHUNK_SIZE == 500

ALT_OVERLAP == 50

\* the characters of the texts splitText is called on
TextChars == {"a", " "}

Texts == UNION {[1..n -> TextChars] : n \in 0..MaxTextLen}

\* (chunkSize, overlap) with 0 <= overlap < chunkSize
SplitParams ==
  {<<DEFAULT_CHUNK_SIZE, DEFAULT_OVERLAP>>, <<ALT_CHUNK_SIZE, ALT_OVERLAP>>}
    \cup {p \in (1..MaxWindow) \X (0..(MaxWindow - 1)) : p[2] < p[1]}

\* 50 characters, all different
FiftyChars ==
  <<"A","B","C","D","E","F","G","H","I","J","K","L","M","N","O","P","Q","R",
    "S","T","U","V","W","X","Y","Z","b","f","g","h","i","j","k","l","m","n",
    "o","q","r","u","v","w","x","y","z","0","1","2","3","4">>

\* the first character of the long text of a section
SectionInitial ==
  [about |-> "a", skills |-> "s", experience |-> "e", education |-> "d",
   projects |-> "p", certificates |-> "c", contact |-> "t"]

\* a section text one character longer than the threshold of splitIntoChunks
LongText(section) == <<SectionInitial[section]>> \o FiftyChars

\* the contents splitIntoChunks is called on: any set of sections long and
\* the others empty, the page with one short section, and the two objects
\* of static content
Contents ==
  {[structured |-> [s \in AllSections |->
                      IF s \in long THEN LongText(s) ELSE <<>>]] :
     long \in SUBSET AllSections}
    \cup {PageShort, staticContent, fallbackContent}

\* the windows splitIntoChunks is called with: its defaults, and windows of
\* 10 characters without overlap
ChunkerParams == {<<DEFAULT_CHUNK_SIZE, DEFAULT_OVERLAP>>, <<10, 0>>}

\* two chunks, as splitIntoChunks builds them
SkillsChunk ==
  [content |-> <<"S","Q","L"," ","s","k","i","l","l","s">>,
   section |-> "skills",
   type    |-> "priority"]

ContactChunk ==
  [content |-> <<"m","a","i","l">>,
   section |-> "contact",
   type    |-> "secondary"]

ChunkLists == UNION {[1..n -> {SkillsChunk, ContactChunk}] : n \in 0..MaxChunks}

\* the two chunks of a portfolio with skills and contact details; they
\* carry no type
PythonChunk ==
  [content |-> <<"P","y","t","h","o","n",","," ","M","L",","," ","D",
                 "a","t","a"," ","A","n","a","l","y","s","i","s">>,
   section |-> "skills",
   type    |-> "undefined"]

CairoChunk ==
  [content |-> <<"C","a","i","r","o",","," ","E","g","y","p","t"," ",
                 "c","o","n","t","a","c","t"," ","i","n","f","o">>,
   section |-> "contact",
   type    |-> "undefined"]

\* the chunk lists the keyword rankers are called on: the lists above, the
\* portfolio of two chunks, and a list longer than TOP_K
RankedLists ==
  ChunkLists \cup {<<PythonChunk, CairoChunk>>,
                   <<ContactChunk, SkillsChunk, SkillsChunk, ContactChunk>>}

\* a question about the skills
SkillsQuestion ==
  <<"W","h","a","t"," ","a","r","e"," ","h","i","s"," ","s","k","i",
    "l","l","s","?">>

\* the queries of the keyword rankers: plain words, no word longer than two
\* characters, and words holding "?", "+" and "("
Queries ==
  {MsgSkills.text, SkillsQuestion,
   <<"m","a","i","l"," ","s","k","i","l","l","s">>,
   <<"i","s"," ","i","t">>,
   <<"A","n","y"," ","s","q","l","?">>,
   <<"c","+","+"," ","m","a","i","l">>,
   <<"m","a","i","l"," ","(","s","q","l">>}

\* topK of a ranker call
TopKs == {1, TOP_K}

\* the longest vector cosineSimilarity is called on, besides a placeholder
MaxDim == 2

\* the arguments of cosineSimilarity: a missing vector, the vectors of
\* components -1, 0, 1 and the placeholder
Vectors ==
  {Null} \cup {Some(v) : v \in UNION {[1..n -> {-1, 0, 1}] : n \in 0..MaxDim}
                                \cup {ZeroEmbedding}}

\* what the cache can hold for one chunk after generateEmbeddings
StoredVectors == {embeddingOf(result) : result \in EmbedResults}

\* the embeddings argument of findRelevantChunks for n chunks
EmbeddingLists(n) == {Null} \cup {Some(e) : e \in [1..n -> StoredVectors]}

\* a call that has not returned
pending(fn, args) == [fn |-> fn, args |-> args, ret |-> Null]

\* a vector of the provider of part_005: 1 at place k, 0 elsewhere
OpenAiUnit(k) == [i \in 1..OPENAI_DIM |-> IF i = k THEN 1 ELSE 0]

OpenAiVectors == {OpenAiUnit(1), OpenAiUnit(2)}

\* what the one embedding call for n chunks does
OpenAiEmbedResults(n) ==
  {[kind |-> "ok", values |-> vs] : vs \in [1..n -> OpenAiVectors]}
    \cup {[kind |-> "http_error", values |-> <<>>],
          [kind |-> "throws", values |-> <<>>]}

\* what the embedding call for the query does
OpenAiQueryResults ==
  {[kind |-> "ok", values |-> v] : v \in OpenAiVectors}
    \cup {[kind |-> "http_error", values |-> <<>>]}

Calls ==
  {pending("splitText", <<t, p[1], p[2]>>) : t \in Texts, p \in SplitParams}
    \cup
  {pending("splitIntoChunks", <<c, p[1], p[2]>>) :
     c \in Contents, p \in ChunkerParams}
    \cup
  UNION {{pending("generateEmbeddings", <<cs, results>>) :
            results \in EmbedResultSeqs(Len(cs))} : cs \in ChunkLists}
    \cup
  UNION {{pending("findRelevantChunks", <<MsgSkills.text, Some(cs), e, q, TOP_K>>) :
            e \in EmbeddingLists(Len(cs)), q \in EmbedResults} :
           cs \in ChunkLists}
    \cup
  {pending(fn, <<q, Some(cs), k>>) :
     fn \in {"findRelevantContentSimple", "findRelevantContent"},
     q \in Queries, cs \in RankedLists, k \in TopKs}
    \cup
  {pending("cosineSimilarity", <<a, b>>) : a \in Vectors, b \in Vectors}
    \cup
  UNION {{pending("openaiFindRelevantChunks",
                  <<MsgSkills.text, cs, openaiGenerateEmbeddings(cs, e), q,
                    TOP_K>>) :
            e \in OpenAiEmbedResults(Len(cs)), q \in OpenAiQueryResults} :
           cs \in ChunkLists \ {<<>>}}

\* the call has returned
Returned == call # Null /\ call.ret # Null

\* call is an application of fn that has not returned
Pending(fn) == call # Null /\ call.fn = fn /\ call.ret = Null

FnInit ==
  /\ cache = emptyCache
  /\ req = [r \in Requests |-> newRequest]
  /\ wu = [r \in Requests |-> noWarmUp]
  /\ clock = CACHE_DURATION
  /\ ticks = 0
  /\ hung = FALSE
  /\ geminiApiKey = TRUE
  /\ nodeFetch = TRUE
  /\ scrapeCalls = 0
  /\ origin = originOf(0)
  /\ call \in Calls
  /\ portfolioContextCache = Null

\* splitText(text, chunkSize, overlap) is evaluated
SplitTextReturns ==
  /\ Pending("splitText")
  /\ call' = [call EXCEPT !.ret =
                Some(splitText(call.args[1], call.args[2], call.args[3]))]
  /\ UNCHANGED <<cache, req, wu, clock, ticks, hung, geminiApiKey, nodeFetch,
                 scrapeCalls, origin, portfolioContextCache>>

\* splitIntoChunks(content, chunkSize, overlap) is evaluated
SplitIntoChunksReturns ==
  /\ Pending("splitIntoChunks")
  /\ call' = [call EXCEPT !.ret =
                Some(splitIntoChunks(call.args[1], call.args[2],
                                     call.args[3]))]
  /\ UNCHANGED <<cache, req, wu, clock, ticks, hung, geminiApiKey, nodeFetch,
                 scrapeCalls, origin, portfolioContextCache>>

\* generateEmbeddings(chunks, apiKey) returns, the provider having answered
\* the call for chunk i with results[i]
GenerateEmbeddingsReturns ==
  /\ Pending("generateEmbeddings")
  /\ call' = [call EXCEPT !.ret =
                Some(generateEmbeddings(call.args[1], call.args[2]))]
  /\ UNCHANGED <<cache, req, wu, clock, ticks, hung, geminiApiKey, nodeFetch,
                 scrapeCalls, origin, portfolioContextCache>>

\* findRelevantChunks(query, chunks, embeddings, key, topK) returns
FindRelevantChunksReturns ==
  /\ Pending("findRelevantChunks")
  /\ call' = [call EXCEPT !.ret =
                Some(findRelevantChunks(call.args[1], call.args[2],
                                        call.args[3], call.args[4],
                                        call.args[5]))]
  /\ UNCHANGED <<cache, req, wu, clock, ticks, hung, geminiApiKey, nodeFetch,
                 scrapeCalls, origin, portfolioContextCache>>

\* findRelevantContentSimple(query, chunks, topK) returns or raises
FindRelevantContentSimpleReturns ==
  /\ Pending("findRelevantContentSimple")
  /\ call' = [call EXCEPT !.ret =
                Some(findRelevantContentSimple(call.args[1], call.args[2],
                                               call.args[3]))]
  /\ UNCHANGED <<cache, req, wu, clock, ticks, hung, geminiApiKey, nodeFetch,
                 scrapeCalls, origin, portfolioContextCache>>

\* findRelevantContent(query, chunks, topK) of the keyword handler returns
\* or raises
FindRelevantContentReturns ==
  /\ Pending("findRelevantContent")
  /\ call' = [call EXCEPT !.ret =
                Some(findRelevantContent(call.args[1], call.args[2],
                                         call.args[3]))]
  /\ UNCHANGED <<cache, req, wu, clock, ticks, hung, geminiApiKey, nodeFetch,
                 scrapeCalls, origin, portfolioContextCache>>

\* cosineSimilarity(vecA, vecB) is evaluated
CosineSimilarityReturns ==
  /\ Pending("cosineSimilarity")
  /\ call' = [call EXCEPT !.ret =
                Some(cosineSimilarity(call.args[1], call.args[2]))]
  /\ UNCHANGED <<cache, req, wu, clock, ticks, hung, geminiApiKey, nodeFetch,
                 scrapeCalls, origin, portfolioContextCache>>

\* findRelevantChunks(query, chunks, embeddings, key, topK) of part_005
\* returns
OpenAiFindRelevantChunksReturns ==
  /\ Pending("openaiFindRelevantChunks")
  /\ call' = [call EXCEPT !.ret =
                Some(openaiFindRelevantChunks(call.args[1], call.args[2],
                                              call.args[3], call.args[4],
                                              call.args[5]))]
  /\ UNCHANGED <<cache, req, wu, clock, ticks, hung, geminiApiKey, nodeFetch,
                 scrapeCalls, origin, portfolioContextCache>>

FnNext ==
  \/ SplitTextReturns
  \/ SplitIntoChunksReturns
  \/ GenerateEmbeddingsReturns
  \/ FindRelevantChunksReturns
  \/ FindRelevantContentSimpleReturns
  \/ FindRelevantContentReturns
  \/ CosineSimilarityReturns
  \/ OpenAiFindRelevantChunksReturns

SpecFn == FnInit /\ [][FnNext]_vars

\* ================== the RAG handler on a cache that holds chunks
\*
\* The steps of a POST from the validity check to the answer, started on a
\* cache that a refresh has filled with a chunk list and its embeddings.

\* the caches a refresh leaves: a chunk list that is not empty, and for each
\* chunk what generateEmbeddings kept for it
FilledCaches ==
  UNION {{warmedCache(staticContent, cs, generateEmbeddings(cs, results),
                      CACHE_DURATION) :
            results \in EmbedResultSeqs(Len(cs))} :
           cs \in ChunkLists \ {<<>>}}

FilledInit ==
  /\ cache \in FilledCaches
  /\ req = [r \in Requests |-> newRequest]
  /\ wu = [r \in Requests |-> noWarmUp]
  /\ clock = CACHE_DURATION
  /\ ticks = 0
  /\ hung = FALSE
  /\ geminiApiKey = TRUE
  /\ nodeFetch = TRUE
  /\ scrapeCalls = 1
  /\ origin = originOf(1)
  /\ call = Null
  /\ portfolioContextCache = Null

FilledNext ==
  \E r \in Requests :
    \/ PostChecksCache(r)
    \/ RankReturns(r)
    \/ GenerateReturns(r)

SpecFilled == FilledInit /\ [][FilledNext]_vars
\* ====================================================== properties: RAG

\* the refresh cycles (scrape, chunk, embed) that are running
InFlight ==
  {<<"warmUpCache", r>> : r \in {x \in Requests : wu[x].pc \in {"scrape", "embed"}}}
    \cup
  {<<"handler", r>> : r \in {x \in Requests : req[x].pc \in {"scrape", "embed"}}}

\* every request so far is a POST with a valid message that arrived while the
\* cache had no content
OnlyPostsOnEmptyCache ==
  \A r \in Requests :
    req[r].pc # "new" =>
      /\ req[r].method = "POST"
      /\ ValidMessage(req[r].message)
      /\ req[r].sawEmpty

\* C1: when the requests so far are N >= 1 POSTs that arrived on the empty
\* cache, scrapePortfolio has been called exactly once, whatever the
\* interleaving of their polling with the warm-up.
C1_OneCycleOnEmptyCache ==
  (OnlyPostsOnEmptyCache /\ geminiApiKey /\ req[1].pc # "new")
    => scrapeCalls = 1

\* C2: at most one refresh cycle (a warmUpCache run or an inline refresh of
\* the handler) is in flight in every reachable state.
C2_AtMostOneRefreshInFlight == Cardinality(InFlight) <= 1

\* request r found the cache stale at its validity check and is refreshing
RefreshingStale(r) ==
  /\ req[r].pc \in {"scrape", "embed"}
  /\ req[r].checked # Null
  /\ Get(req[r].checked).populated
  /\ Get(req[r].checked).age >= CACHE_DURATION

\* C3: a request that found the cache stale refreshes it with the refreshing
\* flag set, and no other refresh cycle runs beside it.
C3_StaleRefreshHoldsFlag ==
  \A r \in Requests :
    RefreshingStale(r) => Flag(cache) /\ InFlight = {<<"handler", r>>}

C5_TimedOutRequestDoesNotRefresh ==
  \A r \in Requests : req[r].timedOut => req[r].cycle = 0

\* the cache state request r saw at its validity check
Checked(r) == Get(req[r].checked)

\* C7: a request whose validity check sees a populated cache of age at most
\* 3599999 ms goes to ranking without a scrape of its own, and one that sees
\* an age of 3600000 ms or more runs a refresh and ranks what that refresh
\* stored.
C7_TtlBoundary ==
  \A r \in Requests :
    (req[r].checked # Null /\ Checked(r).populated) =>
      /\ Checked(r).age <= CACHE_DURATION - 1 =>
           /\ req[r].cycle = 0
           /\ req[r].pc \in {"rank", "generate", "done"}
      /\ Checked(r).age >= CACHE_DURATION =>
           /\ req[r].cycle # 0
           /\ req[r].ranked # Null =>
                Get(req[r].ranked).origin.chunks = req[r].cycle

\* a request reused a populated cache exactly 3599999 ms old
C7_Witness ==
  \E r \in Requests :
    /\ req[r].checked # Null
    /\ Checked(r).populated
    /\ Checked(r).age = CACHE_DURATION - 1
    /\ req[r].pc = "rank"

C9_OneCyclePerSnapshot ==
  /\ origin.content = origin.chunks
  /\ origin.chunks = origin.embeddings
  /\ origin.embeddings = origin.lastUpdated
  /\ \A r \in Requests :
       req[r].ranked # Null =>
         Get(req[r].ranked).origin.chunks
           = Get(req[r].ranked).origin.embeddings

\* a request is ranking what one cycle stored while a later cycle has
\* replaced the cache
C9_Witness ==
  \E r \in Requests :
    /\ req[r].pc = "rank"
    /\ Get(req[r].ranked).origin.chunks # 0
    /\ Get(req[r].ranked).origin.chunks # origin.chunks

\* request r is a POST whose message is missing, empty or not a string
BadMessage(q) ==
  /\ q.method = "POST"
  /\ (q.message.type # "string" \/ Len(q.message.text) = 0)

\* C10: a POST whose message is missing, empty or not a string is answered
\* 400 in the step it arrives in; that step leaves the cache as it is and
\* starts no warm-up and no scrape, and the request never reaches the
\* refresh, the ranker or the generation call.
C10_BadMessageRejected ==
  /\ [][\A r \in Requests :
          (req[r].pc = "new" /\ BadMessage(req'[r])) =>
            /\ req'[r].pc = "done"
            /\ req'[r].status = 400
            /\ cache' = cache
            /\ wu' = wu
            /\ scrapeCalls' = scrapeCalls]_vars
  /\ [](\A r \in Requests :
          BadMessage(req[r]) =>
            /\ req[r].pc = "done"
            /\ req[r].cycle = 0
            /\ req[r].ranked = Null
            /\ req[r].relevant = Null
            /\ wu[r].pc = "none")

\* an empty message was rejected while a warm-up was running
C10_Witness ==
  \E r \in Requests :
    /\ req[r].message = MsgEmpty
    /\ req[r].method = "POST"
    /\ req[r].status = 400
    /\ Flag(cache)

\* ------------------------------------------------- properties: error paths

\* request r is a GET /warmup, or a POST whose message is a non-empty string
NeedsKey(q) ==
  \/ q.method = "WARMUP"
  \/ /\ q.method = "POST"
     /\ q.message.type = "string"
     /\ Len(q.message.text) > 0

\* C11 (as amended): without GEMINI_API_KEY a GET /warmup, and a POST whose
\* message is a non-empty string, are answered 500 in the step they arrive
\* in; no warm-up or refresh is started and no call goes out to the content
\* source, the embedding provider or the generation provider.
C11_NoKeyFailsFast ==
  /\ [][\A r \in Requests :
          (~geminiApiKey /\ req[r].pc = "new" /\ NeedsKey(req'[r])) =>
            /\ req'[r].pc = "done"
            /\ req'[r].status = 500
            /\ cache' = cache
            /\ wu' = wu
            /\ scrapeCalls' = scrapeCalls]_vars
  /\ [](~geminiApiKey =>
          /\ scrapeCalls = 0
          /\ cache = emptyCache
          /\ \A r \in Requests :
               /\ wu[r].pc = "none"
               /\ req[r].pc \in {"new", "done"}
               /\ req[r].ranked = Null
               /\ req[r].generation = "")

\* without the key, a GET /warmup and a POST with a message have both been
\* answered 500
C11_Witness ==
  /\ ~geminiApiKey
  /\ \E r1, r2 \in Requests :
       /\ req[r1].method = "WARMUP" /\ req[r1].status = 500
       /\ req[r2].method = "POST" /\ req[r2].status = 500
       /\ req[r2].message = MsgSkills

\* C11 (as stated): without GEMINI_API_KEY every POST and every GET /warmup
\* is answered 500.
C11_EveryPostAnswers500 ==
  \A r \in Requests :
    (~geminiApiKey /\ req[r].pc = "done"
       /\ req[r].method \in {"POST", "WARMUP"})
      => req[r].status = 500

\* C12: a request whose generation call did not succeed (a status that is
\* not 2xx, or a rejected fetch) is answered 502, never 200.
C12_GenerationFailureIs502 ==
  \A r \in Requests :
    req[r].generation \in {"http_error", "throws"} => req[r].status = 502

\* C13: a refresh (of a request or of a warm-up) whose fetch of the content
\* source failed, so that scrapePortfolio returned the static content, goes
\* on to the embedding step and the commit; it does not stop in the refresh.
C13_FetchFailureIsAbsorbed ==
  \A r \in Requests :
    /\ req[r].scraped = Some(staticContent) => req[r].pc # "chunking"
    /\ wu[r].scraped = Some(staticContent) => wu[r].pc # "chunking"

\* C14: a cache filled by a refresh whose fetch brought back a body with
\* none of the sections (a non-2xx answer, malformed markup) holds a chunk
\* list that is not empty.
C14_FailedSourceGivesChunks ==
  (cache.content = Some(PageNoSections) /\ cache.chunks # Null)
    => Len(Get(cache.chunks)) > 0

Done(fn) == Returned /\ call.fn = fn

\* C15: generateEmbeddings returns one vector per chunk: the provider's
\* vector at every index whose call answered 2xx with a non-empty
\* embedding.values, and the placeholder of 768 zeros at every index whose
\* call answered another status, answered without values, or raised.
C15_FailedChunksGetPlaceholders ==
  Done("generateEmbeddings") =>
    LET chunks     == call.args[1]
        results    == call.args[2]
        embeddings == Get(call.ret)
    IN /\ Len(embeddings) = Len(chunks)
       /\ \A i \in 1..Len(chunks) :
            IF results[i].kind = "ok" /\ results[i].values # <<>>
            THEN embeddings[i] = results[i].values
            ELSE embeddings[i] = [k \in 1..768 |-> 0]

\* of two chunks, the call for the first raised and the call for the second
\* succeeded
C15_Witness ==
  /\ Done("generateEmbeddings")
  /\ Len(call.args[1]) = 2
  /\ call.args[2][1].kind = "throws"
  /\ call.args[2][2].kind = "ok"

\* some cached embedding has a component that is not zero
NonDegenerate(embeddings) ==
  /\ embeddings # Null
  /\ \E i \in 1..Len(Get(embeddings)) :
       \E k \in 1..Len(Get(embeddings)[i]) : Get(embeddings)[i][k] # 0

C18_SplitTextTerminates ==
  Done("splitText") => ~Get(call.ret).diverges

\* the order in which the sections of the content are enumerated
EnumerationOrder ==
  <<"about", "skills", "experience", "education", "projects", "certificates",
    "contact">>

\* the place of a section in EnumerationOrder
Place(section) ==
  CHOOSE i \in 1..Len(EnumerationOrder) : EnumerationOrder[i] = section

\* where the character c is in text
IndexOf(c, text) == CHOOSE i \in 1..Len(text) : text[i] = c

Sectioned(content, chunkSize, overlap) ==
  chunkSections(content, otherSections, "secondary", chunkSize, overlap, 1,
    chunkSections(content, prioritySections, "priority", chunkSize, overlap,
                  1, <<>>).chunks).chunks

\* C20: splitIntoChunks returns at most 30 chunks: all the chunks of the
\* sections when they are at most 30, and the first 30 of them otherwise.
C20_AtMostThirtyChunks ==
  (Done("splitIntoChunks") /\ ~Get(call.ret).diverges) =>
    LET all    == Sectioned(call.args[1], call.args[2], call.args[3])
        chunks == Get(call.ret).chunks
    IN /\ Len(chunks) <= 30
       /\ chunks = IF Len(all) > 30 THEN SubSeq(all, 1, 30) ELSE all

\* splitIntoChunks has returned 30 chunks of a content whose sections give
\* more than 30
C20_Witness ==
  /\ Done("splitIntoChunks")
  /\ ~Get(call.ret).diverges
  /\ Len(Get(call.ret).chunks) = 30
  /\ Len(Sectioned(call.args[1], call.args[2], call.args[3])) > 30

\* --------------------------------------------------- properties: ranking

\* a keyword ranker has been called and has returned a list
Ranked ==
  /\ Returned
  /\ call.fn \in {"findRelevantContentSimple", "findRelevantContent"}
  /\ ~Get(call.ret).throws

\* C21: in keyword mode every returned item has a strictly positive score,
\* and a chunk in which the query words match nowhere is not returned; a
\* query with no word longer than two characters returns nothing.
C21_KeywordScoresPositive ==
  Ranked =>
    LET words == queryWordsOf(call.args[1])
        items == Get(call.ret).items
    IN \A i \in 1..Len(items) :
         /\ items[i].similarity.num > 0
         /\ items[i].similarity.densq > 0
         /\ sumMatches(words, ToLowerCase(items[i].chunk.content)) > 0

\* of two chunks one matches the query and is returned, the other matches
\* nowhere and is left out
C21_Witness ==
  /\ Ranked
  /\ Len(Get(call.args[2])) = 2
  /\ Len(Get(call.ret).items) = 1

\* a query of short words only, on chunks: nothing is returned
C21_ShortWordsWitness ==
  /\ Ranked
  /\ queryWordsOf(call.args[1]) = <<>>
  /\ Get(call.args[2]) # <<>>

\* the number of chunks from chunk i on in which the query words match
RECURSIVE matching(_, _, _)
matching(words, chunks, i) ==
  IF i > Len(chunks) THEN 0
  ELSE (IF sumMatches(words, ToLowerCase(chunks[i].content)) > 0
        THEN 1 ELSE 0) + matching(words, chunks, i + 1)

\* a ranker has been called on a list of chunks
RankerCalled ==
  /\ Returned
  /\ call.fn \in {"findRelevantContentSimple", "findRelevantContent",
                  "findRelevantChunks"}

\* the items a ranker call has to return: all the relevant ones, topK at most
Expected ==
  LET chunks == Get(call.args[2])
      topK   == call.args[Len(call.args)]
      res    == Get(call.ret)
  IN IF call.fn = "findRelevantChunks" /\ res.mode = "semantic"
     THEN Min(topK, Len(chunks))
     ELSE Min(topK, matching(queryWordsOf(call.args[1]), chunks, 1))

\* a ranker call that returned its list holds the expected number of items
C22_TopKWhenReturned ==
  (RankerCalled /\ ~Get(call.ret).throws) =>
    Len(Get(call.ret).items) = Expected

\* C22: both ranking modes return, without raising, all the relevant items
\* and topK at most, for every query, chunk list and topK.
C22_TopKWithoutRaising ==
  RankerCalled =>
    /\ ~Get(call.ret).throws
    /\ Len(Get(call.ret).items) = Expected

\* C23: a ranker returns its items by non-increasing score, and items of
\* equal score by ascending index of the chunk in the list.
C23_SortedAndStable ==
  (RankerCalled /\ ~Get(call.ret).throws) =>
    LET items == Get(call.ret).items
    IN \A i, j \in 1..Len(items) :
         i < j =>
           /\ ~SimLess(items[i].similarity, items[j].similarity)
           /\ ~SimLess(items[j].similarity, items[i].similarity)
                => items[i].index < items[j].index

\* chunks 1 and 2 score the same and more than chunk 0: they are returned
\* first, in that order, and chunk 0 after them
C23_Witness ==
  /\ RankerCalled
  /\ ~Get(call.ret).throws
  /\ Len(Get(call.ret).items) = 3
  /\ Get(call.ret).items[1].index = 1
  /\ Get(call.ret).items[2].index = 2
  /\ Get(call.ret).items[3].index = 0

\* a keyword ranker has answered the question about the skills on the
\* portfolio of two chunks
SkillsAsked ==
  /\ Returned
  /\ call.fn \in {"findRelevantContentSimple", "findRelevantContent"}
  /\ call.args[1] = SkillsQuestion
  /\ call.args[2] = Some(<<PythonChunk, CairoChunk>>)

\* C24: asked "What are his skills?" on a skills chunk and a contact chunk,
\* keyword mode returns the skills chunk, with a higher score than the
\* contact chunk and before it if the contact chunk is returned at all.
C24_SkillsAboveContact ==
  SkillsAsked =>
    LET items == Get(call.ret).items
    IN \E i \in 1..Len(items) :
         /\ items[i].chunk = PythonChunk
         /\ \A j \in 1..Len(items) :
              items[j].chunk = CairoChunk =>
                /\ i < j
                /\ SimLess(items[j].similarity, items[i].similarity)

\* what the code does on that call: no query word matches in either chunk,
\* and nothing is returned
C24_NothingReturned ==
  SkillsAsked => (~Get(call.ret).throws /\ Get(call.ret).items = <<>>)

\* a vector is missing or has no component other than 0
ZeroNorm(v) == v = Null \/ \A i \in 1..Len(Get(v)) : Get(v)[i] = 0

\* cosineSimilarity has been called on a degenerate pair of vectors
Degenerate ==
  /\ Done("cosineSimilarity")
  /\ \/ ZeroNorm(call.args[1])
     \/ ZeroNorm(call.args[2])
     \/ Len(Get(call.args[1])) # Len(Get(call.args[2]))

\* C25: cosineSimilarity returns exactly 0 when a vector is missing, has
\* zero norm (the placeholder of zeros included) or the two lengths differ.
C25_DegenerateSimilarityIsZero ==
  Degenerate => Get(call.ret) = SimZero

\* the placeholder of 768 zeros against itself
C25_Witness ==
  /\ Degenerate
  /\ call.args[1] = Some(ZeroEmbedding)
  /\ call.args[2] = Some(ZeroEmbedding)

\* whether word occurs in text at position i, character for character
OccursAt(word, text, i) ==
  /\ i + Len(word) - 1 <= Len(text)
  /\ \A k \in 1..Len(word) : text[i + k - 1] = word[k]

\* the literal occurrences of word in text from position i on, counted
\* without overlap
RECURSIVE occurrencesFrom(_, _, _)
occurrencesFrom(word, text, i) ==
  IF i + Len(word) - 1 > Len(text) THEN 0
  ELSE IF OccursAt(word, text, i)
       THEN 1 + occurrencesFrom(word, text, i + Len(word))
       ELSE occurrencesFrom(word, text, i + 1)

\* the literal occurrences of the words in text
RECURSIVE literalMatches(_, _)
literalMatches(words, text) ==
  IF words = <<>> THEN 0
  ELSE occurrencesFrom(Head(words), text, 1)
         + literalMatches(Tail(words), text)

\* a keyword ranker has been called with a non-empty query
KeywordCalled ==
  /\ Returned
  /\ call.fn \in {"findRelevantContentSimple", "findRelevantContent"}
  /\ call.args[1] # <<>>

\* C30: for every non-empty query, words with "+", "(" or "?" included, a
\* keyword ranker returns without raising, and the chunks it returns are
\* those in which the query words occur literally.
C30_LiteralAndTotal ==
  KeywordCalled =>
    LET words  == queryWordsOf(call.args[1])
        chunks == Get(call.args[2])
        res    == Get(call.ret)
    IN /\ ~res.throws
       /\ \A i \in 1..Len(chunks) :
            (\E k \in 1..Len(res.items) : res.items[k].index = i - 1)
              => literalMatches(words, ToLowerCase(chunks[i].content)) > 0

\* what the code does: a word with "+" after "+", or with "(", raises as
\* soon as there is a chunk to score
C30_MetacharactersRaise ==
  KeywordCalled =>
    (Get(call.ret).throws <=>
       /\ Get(call.args[2]) # <<>>
       /\ \E w \in {<<"c", "+", "+">>, <<"(", "s", "q", "l">>} :
            \E i \in 1..Len(queryWordsOf(call.args[1])) :
              queryWordsOf(call.args[1])[i] = w)

\* a call that returns a chunk in which no query word occurs literally: the
\* word "sql?" matches "sql"
C30_PatternNotLiteral ==
  /\ KeywordCalled
  /\ ~Get(call.ret).throws
  /\ \E k \in 1..Len(Get(call.ret).items) :
       literalMatches(queryWordsOf(call.args[1]),
                      ToLowerCase(Get(call.ret).items[k].chunk.content)) = 0

\* ------------------------------------------- properties: the conversation

\* request r carried a history of turns { role, text } and the handler has
\* read it
TextHistory(r) ==
  /\ req[r].history # Null
  /\ \A i \in 1..Len(Get(req[r].history)) :
       Get(req[r].history)[i].text # Null

\* the contents of r are the retrieved context, then the turns of its
\* history in order, each with its role and text, then the question
Layout(r) ==
  LET turns    == Get(req[r].history)
      contents == Get(req[r].payload)
      n        == Len(turns)
  IN /\ Len(contents) = n + 2
     /\ contents[1].kind = "context"
     /\ \A i \in 1..n :
          /\ contents[i + 1].kind = "turn"
          /\ contents[i + 1].role = turns[i].role
          /\ Some(contents[i + 1].text) = turns[i].text
     /\ contents[n + 2].kind = "question"
     /\ contents[n + 2].text = req[r].message.text

\* C26: a POST whose history is a list of turns { role, text } is not
\* failed for it, and its payload holds the retrieved context, then each
\* turn with its role and text in order, then the question.
C26_TextHistoryAccepted ==
  \A r \in Requests :
    TextHistory(r) =>
      /\ req[r].raised # "TypeError"
      /\ req[r].payload # Null
      /\ Layout(r)

\* what the code does with such a history: the mapping raises, no payload
\* is built and the answer is 500
C26_TextHistoryFails ==
  \A r \in Requests :
    TextHistory(r) =>
      /\ req[r].status = 500
      /\ req[r].error = "Server error"
      /\ req[r].payload = Null

\* with turns { role, parts: [{ text }] } the payload is laid out as
\* context, turns in order, question; a role other than 'user' is sent as
\* 'model'
PartsHistoryLaidOut ==
  \A r \in Requests :
    (req[r].payload # Null /\ req[r].history # Null) =>
      LET turns    == Get(req[r].history)
          contents == Get(req[r].payload)
          n        == Len(turns)
      IN /\ Len(contents) = n + 2
         /\ contents[1].kind = "context"
         /\ \A i \in 1..n :
              /\ contents[i + 1].role =
                   (IF turns[i].role = "user" THEN "user" ELSE "model")
              /\ contents[i + 1].text = Get(turns[i].parts)[1].text
         /\ contents[n + 2].kind = "question"

\* ------------------------------------------------ properties: exceptions

\* the ranking of request r raised: the ranker was called and the request
\* was answered without a ranking
RankingRaised(r) ==
  req[r].pc = "done" /\ req[r].ranked # Null /\ req[r].relevant = Null

\* an exception was thrown while the POST r was handled after validation: by
\* the ranking, by the mapping of the history, by the generation call or by
\* the parsing of its answer
Thrown(r) ==
  \/ RankingRaised(r)
  \/ historyContents(req[r].history).throws
  \/ req[r].generation \in {"throws", "invalid_body"}

\* C28: an exception thrown while a POST is handled after validation is
\* answered 500 with the body {error: 'Server error'}, which holds nothing
\* of the exception.
C28_ExceptionsAnswered500 ==
  \A r \in Requests :
    Thrown(r) =>
      /\ req[r].status = 500
      /\ req[r].error = "Server error"
      /\ req[r].raised # ""
      /\ req[r].error # req[r].raised

\* the ranking raised a SyntaxError on a word of the message
C28_Witness ==
  \E r \in Requests : RankingRaised(r) /\ req[r].raised = "SyntaxError"

\* ----------------------------------------------- properties: the cache

\* the state of the cache c: REFRESHING while a warm-up holds the flag,
\* otherwise READY with content and EMPTY without
CacheState(c) ==
  IF Flag(c) THEN "REFRESHING"
  ELSE IF c.content # Null THEN "READY" ELSE "EMPTY"

\* the cache changes state only from EMPTY to REFRESHING, from REFRESHING to
\* READY and from READY to REFRESHING
Moves ==
  \/ CacheState(cache') = CacheState(cache)
  \/ <<CacheState(cache), CacheState(cache')>> \in
       {<<"EMPTY", "REFRESHING">>, <<"REFRESHING", "READY">>,
        <<"READY", "REFRESHING">>}

Populated(c) == c.content # Null /\ c.chunks # Null /\ c.embeddings # Null

\* C29: a warm-up that has set the flag is waiting for an outbound call
\* (its scrape or its embeddings) until it has cleared the flag and left
\* the cache populated, whatever scraping, chunking and embedding did; it
\* is never stopped anywhere else.
C29_WarmUpCompletes ==
  \A r \in Requests :
    /\ wu[r].pc \in {"none", "scrape", "embed", "done"}
    /\ wu[r].pc = "done" => (Populated(cache) /\ ~Flag(cache))

\* what the code does: a warm-up whose content has a section of more than
\* 50 characters stays in splitIntoChunks for ever, with the event loop
C29_StuckInChunking ==
  \A r \in Requests :
    wu[r].pc = "chunking" =>
      /\ hung
      /\ splitIntoChunks(IF wu[r].scraped # Null THEN Get(wu[r].scraped)
                         ELSE fallbackContent,
                         DEFAULT_CHUNK_SIZE, DEFAULT_OVERLAP).diverges

\* ------------------------------------------ properties: the cache's clock

\* C31: cache.lastUpdated never decreases: no refresh replaces the cache by
\* one with an older lastUpdated.
C31_LastUpdatedMonotonic ==
  [][(cache.lastUpdated # Null /\ cache'.lastUpdated # Null) =>
       Get(cache'.lastUpdated) >= Get(cache.lastUpdated)]_vars

\* the POST r has been answered 200
Answered(r) == req[r].method = "POST" /\ req[r].status = 200

\* C32: in every 200 answer debug.cacheAge is not negative, and cacheAge and
\* totalChunks are read from the refresh cycle whose chunks were ranked for
\* the request.
C32_DebugDescribesRankedCycle ==
  \A r \in Requests :
    Answered(r) =>
      /\ Get(req[r].debug).cacheAge >= 0
      /\ Get(req[r].answered).lastUpdated = Get(req[r].ranked).origin.chunks
      /\ Get(req[r].answered).chunks = Get(req[r].ranked).origin.chunks

\* the age alone: it is never negative
C32_AgeNotNegative ==
  \A r \in Requests : Answered(r) => Get(req[r].debug).cacheAge >= 0

\* C33: isWarmingUp is true while a warmUpCache invocation is waiting for
\* its scrape or its embeddings: nothing clears or drops the flag before the
\* warm-up has finished.
C33_FlagHeldDuringWarmUp ==
  \A r \in Requests : wu[r].pc \in {"scrape", "embed"} => Flag(cache)

\* ------------------------------------ properties: the keyword handler

\* C34: in the keyword handler every scrape-and-chunk cycle is a warmUpCache
\* run holding the flag, for an empty cache and for a stale one, and at most
\* one is in flight.
C34_KwOneCycleInFlight ==
  /\ Cardinality(InFlight) <= 1
  /\ \A r \in Requests :
       /\ req[r].pc \notin {"scrape", "embed"}
       /\ wu[r].pc = "scrape" => Flag(cache)

\* a stale cache is being refreshed by warmUpCache, and another request has
\* arrived meanwhile and found the flag set at its validity check
C34_Witness ==
  \E r, s \in Requests :
    /\ r # s
    /\ wu[r].pc = "scrape"
    /\ cache.content # Null
    /\ req[s].checked # Null
    /\ Get(req[s].checked).flag

\* ------------------------------------------------ properties: GET /warmup

\* every request that has arrived is a GET /warmup, and one has arrived
WarmupOnly ==
  /\ \A r \in Requests : req[r].pc = "new" \/ req[r].method = "WARMUP"
  /\ req[1].pc # "new"

\* request r arrives in this step as a GET /warmup
WarmupArrives(r) == req[r].pc = "new" /\ req'[r].method = "WARMUP"

C36_FallbackCachedForTtl ==
  \A r \in Requests :
    /\ (wu[r].scraped = Some(staticContent)
          /\ wu[r].pc \notin {"scrape", "embed"})
         => (cache.content # Null /\ cache.lastUpdated # Null)
    /\ (req[r].scraped = Some(staticContent)
          /\ req[r].pc \notin {"scrape", "embed"})
         => (cache.content # Null /\ cache.lastUpdated # Null)
    /\ (req[r].checked # Null
          /\ Get(req[r].checked).populated
          /\ Get(req[r].checked).age < CACHE_DURATION)
         => req[r].cycle = 0

\* the part of C36 on the TTL alone: a request that finds content younger
\* than the TTL does not scrape
C36_ValidCacheNotRefreshed ==
  \A r \in Requests :
    (req[r].checked # Null
       /\ Get(req[r].checked).populated
       /\ Get(req[r].checked).age < CACHE_DURATION)
      => req[r].cycle = 0

\* ================== the summary-cache handler (chat.js, lines 55-165)
\*
\* The first handler of chat.js keeps one module variable,
\* portfolioContextCache, the summary of the portfolio the provider wrote
\* for the first message of a conversation. A request uses of its record
\* the fields pc, method, message, history, payload, generation, status,
\* error and raised.

\* req.body.history of this handler: absent, an empty array, or two turns
SummaryHistories == Histories \cup {Some(<<>>)}

\* const isFirstMessage = !history || history.length === 0 (line 93)
isFirstMessage(history) == history = Null \/ Get(history) = <<>>

\* what the summarisation call does: a 2xx answer with a summary, a 2xx
\* answer without candidates, another status, a rejected fetch, a 2xx
\* answer whose body cannot be parsed
SummaryOutcomes == {"ok", "no_candidates", "http_error", "throws",
                    "invalid_body"}

Summary == "Ahmed is a data scientist in Cairo."

\* summaryParts.map(p => p.text || '').join('\n').trim() (lines 121-123)
summaryText(outcome) == IF outcome = "ok" THEN Summary ELSE ""

\* a faulty variant of contextPart: an unset cache is sent as no text
contextPartBlank(c) ==
  IF c = Null THEN "Portfolio context:\n"
  ELSE "Portfolio context:\n" \o Get(c)

\* `Portfolio context:\n${portfolioContextCache}` (line 130): the template
\* writes null as the four letters null
contextPart(c) ==
  IF c = Null THEN "Portfolio context:\nnull"
  ELSE "Portfolio context:\n" \o Get(c)

\* payload.contents (lines 127-138): the cached summary, the turns of the
\* history, the question
summaryPayload(message, history, c) ==
  LET turns == historyContents(history)
  IN [throws   |-> turns.throws,
      contents |->
        <<[role |-> "user", kind |-> "context", text |-> contextPart(c)]>>
          \o turns.contents
          \o <<[role |-> "user", kind |-> "question", text |-> message]>>]

\* the handler from the construction of the payload to the await of the
\* generation call (lines 126-147), with c the cache it reads
sendGeneration(q, c) ==
  LET p == summaryPayload(q.message.text, q.history, c)
  IN IF p.throws THEN catchError(q, "TypeError")
     ELSE [q EXCEPT !.pc = "generate", !.payload = Some(p)]

\* if (req.method === 'OPTIONS') return res.status(204).end() (lines 74-76)
SumOptions(r) ==
  /\ Arrives(r)
  /\ req' = [req EXCEPT ![r] = respond([@ EXCEPT !.method = "OPTIONS"], 204)]
  /\ UNCHANGED <<cache, wu, clock, ticks, hung, geminiApiKey, nodeFetch,
                 scrapeCalls, origin, call, portfolioContextCache>>

\* if (req.method !== 'POST') return res.status(405)... (lines 78-80)
SumMethodNotAllowed(r) ==
  /\ Arrives(r)
  /\ req' = [req EXCEPT ![r] = fail([@ EXCEPT !.method = "OTHER"], 405,
                                     "Method Not Allowed")]
  /\ UNCHANGED <<cache, wu, clock, ticks, hung, geminiApiKey, nodeFetch,
                 scrapeCalls, origin, call, portfolioContextCache>>

\* POST (lines 82-96): the message and the key are tested, then the handler
\* awaits import('node-fetch')
SumPost(r) ==
  /\ Arrives(r)
  /\ \E m \in Messages, h \in SummaryHistories :
       LET q == [req[r] EXCEPT !.method = "POST", !.message = m,
                               !.history = h]
       IN req' = [req EXCEPT ![r] =
                    IF ~ValidMessage(m)
                    THEN fail(q, 400, "Missing \"message\" string")
                    ELSE IF ~geminiApiKey
                    THEN fail(q, 500,
                              "Server is not configured with GEMINI_API_KEY")
                    ELSE [q EXCEPT !.pc = "import"]]
  /\ UNCHANGED <<cache, wu, clock, ticks, hung, geminiApiKey, nodeFetch,
                 scrapeCalls, origin, call, portfolioContextCache>>

\* the import returns (lines 96-112 or 96-147): a first message sends the
\* summarisation call, any other message the generation call
SumImportReturns(r) ==
  /\ req[r].pc = "import"
  /\ req' = [req EXCEPT ![r] =
               IF ~nodeFetch THEN catchError(@, "ImportError")
               ELSE IF isFirstMessage(@.history)
               THEN [@ EXCEPT !.pc = "summary"]
               ELSE sendGeneration(@, portfolioContextCache)]
  /\ UNCHANGED <<cache, wu, clock, ticks, hung, geminiApiKey, nodeFetch,
                 scrapeCalls, origin, call, portfolioContextCache>>

\* the summarisation call returns (lines 108-147): on a 2xx answer the
\* summary is stored and the generation call is sent
SumSummaryReturns(r) ==
  /\ req[r].pc = "summary"
  /\ \E outcome \in SummaryOutcomes :
       IF outcome \in {"ok", "no_candidates"}
       THEN /\ portfolioContextCache' = Some(summaryText(outcome))
            /\ req' = [req EXCEPT ![r] =
                         sendGeneration(@, portfolioContextCache')]
       ELSE /\ req' = [req EXCEPT ![r] =
                         IF outcome = "http_error"
                         THEN fail(@, 502, "Gemini API error during summary")
                         ELSE catchError(@, IF outcome = "throws"
                                            THEN "FetchError"
                                            ELSE "SyntaxError")]
            /\ UNCHANGED portfolioContextCache
  /\ UNCHANGED <<cache, wu, clock, ticks, hung, geminiApiKey, nodeFetch,
                 scrapeCalls, origin, call>>

\* the generation call returns (lines 140-164)
SumGenerateReturns(r) ==
  /\ req[r].pc = "generate"
  /\ \E outcome \in GenerateOutcomes :
       LET q == [req[r] EXCEPT !.generation = outcome]
       IN req' = [req EXCEPT ![r] =
                    IF outcome = "ok" THEN respond(q, 200)
                    ELSE IF outcome = "http_error"
                    THEN fail(q, 502, "Gemini API error")
                    ELSE catchError(q, IF outcome = "throws" THEN "FetchError"
                                       ELSE "SyntaxError")]
  /\ UNCHANGED <<cache, wu, clock, ticks, hung, geminiApiKey, nodeFetch,
                 scrapeCalls, origin, call, portfolioContextCache>>

SummaryNext ==
  \E r \in Requests :
    \/ SumOptions(r)
    \/ SumMethodNotAllowed(r)
    \/ SumPost(r)
    \/ SumImportReturns(r)
    \/ SumSummaryReturns(r)
    \/ SumGenerateReturns(r)

SpecSummary == Init /\ [][SummaryNext]_vars

\* ------------------------------------------- properties: summary cache

\* the context part of the payload request r sent to the generation call
SentContext(r) == Get(req[r].payload).contents[1].text

\* C37: a request with a history that is not empty, once it has sent its
\* generation call, has sent in it a portfolio context made of a summary the
\* provider wrote, never the unset value of the cache.
C37_HistoryRequestCarriesSummary ==
  \A r \in Requests :
    (req[r].payload # Null /\ ~isFirstMessage(req[r].history))
      => SentContext(r) # contextPart(Null)

\* the part of C37 that does not depend on the requests before: a first
\* message sends the value its own summarisation call stored
C37_FirstMessageCarriesOwnSummary ==
  \A r \in Requests :
    (req[r].payload # Null /\ isFirstMessage(req[r].history))
      => SentContext(r) \in {contextPart(Some(Summary)), contextPart(Some(""))}

\* -------------------------- properties: ranking on placeholder embeddings

\* the call is a ranking of part_005 on placeholder embeddings whose query
\* embedding succeeded, and it has returned
RankedOnPlaceholders ==
  /\ Returned
  /\ call.fn = "openaiFindRelevantChunks"
  /\ call.args[4].kind = "ok"
  /\ \A i \in 1..Len(call.args[3]) : call.args[3][i] = openaiZeroEmbedding

C38_PlaceholderScoresAreNaN ==
  RankedOnPlaceholders =>
    \A i \in 1..Len(Get(call.ret)) :
      /\ Get(call.ret)[i].similarity = NaN
      /\ Get(call.ret)[i].index = i - 1

=============================================================================
